---- MODULE Spec2Model ----
(***************************************************************************)
(* Verification model of the learning-path / task generation pipeline of   *)
(* the education-tracking backend (path/views.py, tasks/services.py).      *)
(*                                                                         *)
(* JSON values are tagged records [t, v]:                                  *)
(*   null  [t |-> "null", v |-> 0]      bool  [t |-> "bool", v |-> b]       *)
(*   num   [t |-> "num",  v |-> n]      str   [t |-> "str",  v |-> s]       *)
(*   list  [t |-> "list", v |-> <<..>>] obj   [t |-> "obj",  v |-> map]     *)
(* A Python dict is a TLA+ function from key strings to JSON values.       *)
(* A call that may raise returns [ok, val, err]: ok = FALSE is a raised    *)
(* exception of class err, val the (partly mutated) argument at that time. *)
(***************************************************************************)
EXTENDS Integers, Sequences, FiniteSets, TLC

VARIABLES
    \* ---- schema-repair harness (pure functions of path/views.py)
    rep_kind,      \* "path" or "roadmap": which repair is exercised
    rep_in,        \* the dict handed to the repair
    rep_now,       \* the clock (day ordinal) read by datetime.now()
    rep_once,      \* result of one application, or NotRun
    rep_twice,     \* result of a second application to the first result
    \* ---- metrics harness: one LLMLearningPathGenerator and its questions
    gen_mode,              \* "metrics", "tier" or "off"
    gen_questions,         \* self.questions: sequence of [subject, correct]
    gen_subject_scores,    \* self.subject_scores: subject -> [correct, total]
    gen_metrics,           \* the metrics last returned, NoMetrics before
    gen_difficulty_mapping,\* the mapping last returned, NoMapping before
    gen_calls,             \* calls of _calculate_basic_metrics made so far
    tier_pct,              \* tier mode: a percentage, in tenths of a percent
    tier_out,              \* tier mode: the tier assigned to tier_pct
    \* ---- deterministic task strategy harness: TaskGenerator.generate_tasks
    tg_objective,          \* learning_objective
    tg_difficulty,         \* difficulty, as passed by the caller
    tg_grade,              \* student_grade
    tg_settings,           \* settings.TASK_GENERATION
    tg_now,                \* the clock read by timezone.now()
    tg_normalized,         \* normalized_difficulty (line 34), "" before the call
    tg_tasks,              \* the list returned, NotGenerated before the call
    \* ---- path generation: LearningPathView.post, one entry per request
    api_key,               \* GROQ_API_KEY of the environment / settings
    clock,                 \* the day datetime.now() reads
    pc,                    \* where each request stands
    request,               \* request.data as the checks of post see it
    questions,             \* generator.questions
    student_info,          \* generator.student_info
    subject_scores,        \* generator.subject_scores
    analysis,              \* the dict returned by the analysis call
    learning_path,         \* the repaired learning path (after merge: as the
                           \* merge left the caller's dict)
    llm_calls,             \* the LLM calls issued, in order
    llm_failed,            \* the stages whose call ended in the except branch
    llm_answers,           \* the dicts _call_llm_api returned so far, in order
    response,              \* the HTTP response, NoResponse while running
    db,                    \* the LearningPath table: sequence of rows
    \* ---- LLM task strategy harness: one call of
    \* LLMTaskGenerator.generate_tasks_from_learning_path
    lt_generator,          \* LLMTaskGenerator(): "none", "constructed" or the
                           \* exception its __init__ raised
    lt_path_data,          \* learning_path.path_data
    lt_outcomes,           \* what the LLM exchange gives for each topic
    lt_settings,           \* settings.TASK_GENERATION
    lt_done,               \* the call has returned
    lt_tasks,              \* the list returned
    lt_calls,              \* positions of the topics an LLM call was made for
    lt_contrib,            \* per topic, the tasks it added to the list
    \* ---- task creation: create_tasks_for_learning_path, one request
    ct_path_data,          \* path_data of the stored LearningPath row
    ct_settings,           \* settings.TASK_GENERATION
    ct_request,            \* request.data: learning_path_id, student_id
    ct_pc,                 \* "Idle", "Persisting" (in the write loop), "Done"
    ct_all_tasks,          \* all_tasks
    ct_next,               \* position of the loop of line 150 in all_tasks
    ct_created,            \* len(created_tasks)
    ct_errors,             \* len(validation_errors)
    ct_tasks,              \* the Task table
    ct_student_tasks,      \* the StudentTask table
    ct_response            \* the HTTP response, NoResponse while running

repairVars == <<rep_kind, rep_in, rep_now, rep_once, rep_twice>>
metricsVars == <<gen_mode, gen_questions, gen_subject_scores, gen_metrics,
                 gen_difficulty_mapping, gen_calls, tier_pct, tier_out>>
taskVars == <<tg_objective, tg_difficulty, tg_grade, tg_settings, tg_now,
              tg_normalized, tg_tasks>>
pathVars == <<api_key, clock, pc, request, questions, student_info, subject_scores,
              analysis, learning_path, llm_calls, llm_failed, llm_answers,
              response, db>>
llmTaskVars == <<lt_generator, lt_path_data, lt_outcomes, lt_settings, lt_done, lt_tasks,
                 lt_calls, lt_contrib>>
createVars == <<ct_path_data, ct_settings, ct_request, ct_pc, ct_all_tasks,
                ct_next, ct_created, ct_errors, ct_tasks, ct_student_tasks,
                ct_response>>
vars == <<repairVars, metricsVars, taskVars, pathVars, llmTaskVars, createVars>>
\* what an action of one harness leaves alone
notRepairVars == <<metricsVars, taskVars, pathVars, llmTaskVars, createVars>>
notMetricsVars == <<repairVars, taskVars, pathVars, llmTaskVars, createVars>>
notTaskVars == <<repairVars, metricsVars, pathVars, llmTaskVars, createVars>>
notPathVars == <<repairVars, metricsVars, taskVars, llmTaskVars, createVars>>
notLLMTaskVars == <<repairVars, metricsVars, taskVars, pathVars, createVars>>
notCreateVars == <<repairVars, metricsVars, taskVars, pathVars, llmTaskVars>>

----------------------------------------------------------------------------
(* JSON values and Python semantics over them *)

Null == [t |-> "null", v |-> 0]
Bool(b) == [t |-> "bool", v |-> b]
Num(n) == [t |-> "num", v |-> n]
Str(s) == [t |-> "str", v |-> s]
List(q) == [t |-> "list", v |-> q]
Obj(f) == [t |-> "obj", v |-> f]

EmptyMap == [k \in {} |-> Null]

\* d[k] = val on a dict
SetKey(f, k, val) == [y \in (DOMAIN f) \cup {k} |-> IF y = k THEN val ELSE f[y]]

\* d.get(k, default)
Get(f, k, default) == IF k \in DOMAIN f THEN f[k] ELSE default

\* Python truthiness: `not x` holds for None, False, 0, "", [] and {}
Falsy(x) ==
    CASE x.t = "null" -> TRUE
      [] x.t = "bool" -> ~x.v
      [] x.t = "num"  -> x.v = 0
      [] x.t = "str"  -> x.v = ""
      [] x.t = "list" -> x.v = <<>>
      [] x.t = "obj"  -> DOMAIN x.v = {}

\* a raised exception / a normal return
Ok(d) == [ok |-> TRUE, val |-> d, err |-> "none"]
Raise(e, d) == [ok |-> FALSE, val |-> d, err |-> e]
NotRun == [ok |-> FALSE, val |-> EmptyMap, err |-> "not run"]

\* The strings of the model that hold the text estimated_completion_date
\* (Python's `sub in s` on a str is a substring test).
HasDateSubstring(s) ==
    s \in {"estimated_completion_date", "no estimated_completion_date yet"}

\* s[:2] on the strings of the model
StrPrefix2(s) ==
    CASE s = "Algebra" -> "Al"
      [] s = "x" -> "x"
      [] OTHER -> ""

\* q[:2] on a list
SeqPrefix2(q) == IF Len(q) <= 2 THEN q ELSE SubSeq(q, 1, 2)

----------------------------------------------------------------------------
(* Schema repair: LLMLearningPathGenerator._ensure_valid_structure and      *)
(* _validate_expert_roadmap                                                 *)

SUBJECTS == <<"Math", "Reading", "Science", "Language">>
SubjectSet == {SUBJECTS[i] : i \in 1..Len(SUBJECTS)}

DefaultWeeks == 4
DaysPerWeek == 7

\* strftime('%Y-%m-%d') of a day ordinal: the text of the date, one string
\* per day.
FormatDate(day) == "date-" \o ToString(day)

\* _get_completion_date(weeks) as called with a JSON value: timedelta(weeks=w)
\* raises TypeError unless w is a number (a bool is the number 0 or 1).
CompletionDateRaises(w) == w.t \notin {"num", "bool"}
WeeksValue(w) == IF w.t = "bool" THEN (IF w.v THEN 1 ELSE 0) ELSE w.v
CompletionDate(now, w) == Str(FormatDate(now + DaysPerWeek * WeeksValue(w)))

\* `"estimated_completion_date" not in x` raises TypeError on None, a number
\* or a bool; it is key membership on a dict, element membership on a list
\* and a substring test on a str.
DateMembershipRaises(x) == x.t \in {"null", "num", "bool"}
DateMissingIn(x) ==
    CASE x.t = "obj"  -> "estimated_completion_date" \notin DOMAIN x.v
      [] x.t = "list" -> \A i \in 1..Len(x.v) : x.v[i] # Str("estimated_completion_date")
      [] x.t = "str"  -> ~HasDateSubstring(x.v)
      [] OTHER -> TRUE

DefaultDifficultyLevels == Obj([s \in SubjectSet |-> Str("Basic")])

\* lines 362-363
RepairDifficultyLevels(lp) ==
    IF "difficulty_levels" \notin DOMAIN lp
    THEN SetKey(lp, "difficulty_levels", DefaultDifficultyLevels)
    ELSE lp

\* lines 365-372; returns [ok, val, err]
RepairCompletionTime(lp, now) ==
    IF "estimated_completion_time" \notin DOMAIN lp
    THEN Ok(SetKey(lp, "estimated_completion_time",
                Obj([weeks |-> Num(DefaultWeeks),
                     estimated_completion_date |->
                         CompletionDate(now, Num(DefaultWeeks))])))
    ELSE LET ect == lp["estimated_completion_time"] IN
         IF DateMembershipRaises(ect) THEN Raise("TypeError", lp)
         ELSE IF ~DateMissingIn(ect) THEN Ok(lp)
         ELSE IF ect.t # "obj" THEN Raise("AttributeError", lp)
         ELSE LET weeks == Get(ect.v, "weeks", Num(DefaultWeeks)) IN
              IF CompletionDateRaises(weeks) THEN Raise("TypeError", lp)
              ELSE Ok(SetKey(lp, "estimated_completion_time",
                        Obj(SetKey(ect.v, "estimated_completion_date",
                                   CompletionDate(now, weeks)))))

\* x[:2]: a slice of a list or a str; None, numbers and bools are not
\* subscriptable and a dict cannot be sliced (the call raises in each case).
SliceRaises(x) == x.t \notin {"list", "str"}
Slice2(x) == IF x.t = "list" THEN List(SeqPrefix2(x.v)) ELSE Str(StrPrefix2(x.v))

\* lines 374-384 with the guard of line 374 dropped: the default study plan
\* is written whether or not one is present
RepairStudyPlan_Unguarded(lp) ==
    LET focus == Get(lp, "weaknesses", List(<<Str(SUBJECTS[1])>>))
        topics == Get(lp, "recommended_topics", List(<<Str("Fundamentals")>>))
    IN  IF SliceRaises(topics) THEN Raise("TypeError", lp)
        ELSE Ok(SetKey(lp, "study_plan", List(<<
               Obj([week |-> Num(1),
                    focus_areas |-> focus,
                    activities |-> List(<<
                        Obj([subject |-> Str(SUBJECTS[1]),
                             topics |-> Slice2(topics),
                             hours |-> Num(5),
                             resources |-> List(<<Str("online tutorials"),
                                                 Str("practice exercises")>>)])
                    >>)])
             >>)))

\* lines 374-384; returns [ok, val, err]
RepairStudyPlan(lp) ==
    IF "study_plan" \in DOMAIN lp /\ ~Falsy(lp["study_plan"])
    THEN Ok(lp)
    ELSE LET focus == Get(lp, "weaknesses", List(<<Str(SUBJECTS[1])>>))
             topics == Get(lp, "recommended_topics", List(<<Str("Fundamentals")>>))
         IN  IF SliceRaises(topics) THEN Raise("TypeError", lp)
             ELSE Ok(SetKey(lp, "study_plan", List(<<
                    Obj([week |-> Num(1),
                         focus_areas |-> focus,
                         activities |-> List(<<
                             Obj([subject |-> Str(SUBJECTS[1]),
                                  topics |-> Slice2(topics),
                                  hours |-> Num(5),
                                  resources |-> List(<<Str("online tutorials"),
                                                      Str("practice exercises")>>)])
                         >>)])
                  >>)))

DefaultRecommendedTopics ==
    List(<<Str("Fundamentals review"), Str("Core skills practice")>>)

\* lines 386-387 with the guard dropped: the default overwrites the list
RepairRecommendedTopics_Overwrite(lp) ==
    SetKey(lp, "recommended_topics", DefaultRecommendedTopics)

\* lines 386-387
RepairRecommendedTopics(lp) ==
    IF "recommended_topics" \notin DOMAIN lp \/ Falsy(lp["recommended_topics"])
    THEN SetKey(lp, "recommended_topics", DefaultRecommendedTopics)
    ELSE lp

\* _ensure_valid_structure(learning_path), the dict mutated in place
EnsureValidStructure(lp, now) ==
    LET r1 == RepairCompletionTime(RepairDifficultyLevels(lp), now) IN
    IF ~r1.ok THEN r1
    ELSE LET r2 == RepairStudyPlan(r1.val) IN
         IF ~r2.ok THEN r2
         ELSE Ok(RepairRecommendedTopics(r2.val))

DefaultLongTermVision ==
    Obj([educational_trajectory |->
             Str("Progressive mastery from foundational to advanced skills"),
         skill_evolution |->
             Str("Iterative development with increasing complexity"),
         potential_career_paths |->
             List(<<Str("Educator"), Str("Specialist"), Str("Researcher")>>),
         expert_level_outcomes |->
             List(<<Str("Independent problem solving"), Str("Knowledge creation")>>)])

DefaultMasteryProgression ==
    List(<<
        Obj([phase |-> Str("beginner"),
             duration |-> Str("3-6 months"),
             focus_areas |-> List(<<Str("Fundamentals"), Str("Core concepts")>>),
             success_indicators |->
                 List(<<Str("Consistent application of basic principles")>>),
             common_challenges |-> List(<<Str("Overwhelm with new information")>>),
             recommended_approaches |->
                 List(<<Str("Structured practice"), Str("Guided learning")>>)]),
        Obj([phase |-> Str("intermediate"),
             duration |-> Str("6-12 months"),
             focus_areas |->
                 List(<<Str("Integration of concepts"), Str("Problem solving")>>),
             success_indicators |->
                 List(<<Str("Independent application of principles")>>),
             common_challenges |-> List(<<Str("Plateaus in skill development")>>),
             recommended_approaches |->
                 List(<<Str("Project-based learning"), Str("Pattern recognition")>>)])
    >>)

DefaultDevelopmentTimeline ==
    Obj([short_term_goals |->
             List(<<Str("Master fundamental concepts"),
                    Str("Develop consistent study habits")>>),
         medium_term_goals |->
             List(<<Str("Independently solve complex problems"),
                    Str("Teach basics to others")>>),
         long_term_goals |->
             List(<<Str("Contribute original insights"),
                    Str("Achieve expert-level proficiency")>>),
         milestone_achievements |->
             List(<<Str("Complete capstone projects"),
                    Str("Earn recognized certifications")>>)])

\* lines 393-399
RepairLongTermVision(rm) ==
    IF "long_term_vision" \notin DOMAIN rm
    THEN SetKey(rm, "long_term_vision", DefaultLongTermVision)
    ELSE rm

\* lines 401-419
RepairMasteryProgression(rm) ==
    IF "mastery_progression" \notin DOMAIN rm \/ Falsy(rm["mastery_progression"])
    THEN SetKey(rm, "mastery_progression", DefaultMasteryProgression)
    ELSE rm

\* lines 421-427
RepairDevelopmentTimeline(rm) ==
    IF "development_timeline" \notin DOMAIN rm
    THEN SetKey(rm, "development_timeline", DefaultDevelopmentTimeline)
    ELSE rm

\* _validate_expert_roadmap(roadmap), the dict mutated in place
ValidateExpertRoadmap(rm) ==
    Ok(RepairDevelopmentTimeline(RepairMasteryProgression(RepairLongTermVision(rm))))

----------------------------------------------------------------------------
(* Inputs of the schema-repair harness: the JSON objects an LLM stage may   *)
(* return.  Absent marks a key the object does not carry.                   *)

Absent == [t |-> "absent", v |-> 0]

\* the dict holding the keys of rec whose value is not Absent
Build(rec) == [k \in {x \in DOMAIN rec : rec[x] # Absent} |-> rec[k]]

MaxNow == 1

WeekEntry ==
    Obj([week |-> Num(1), focus_areas |-> List(<<Str("Reading")>>),
         activities |-> List(<<>>)])

DifficultyLevelChoices ==
    {Absent, Null, Obj([Math |-> Str("Advanced"), Reading |-> Str("Basic")])}

CompletionTimeChoices ==
    {Absent, Null, Num(4), Bool(TRUE), Str("4 weeks"),
     Str("no estimated_completion_date yet"),
     List(<<>>), List(<<Str("estimated_completion_date")>>),
     Obj(EmptyMap), Obj([weeks |-> Num(6)]), Obj([weeks |-> Str("6")]),
     Obj([weeks |-> Null]),
     Obj([estimated_completion_date |-> Str("")]),
     Obj([estimated_completion_date |-> Null]),
     Obj([weeks |-> Num(6), estimated_completion_date |-> Str("date-100")])}

StudyPlanChoices ==
    {Absent, Null, List(<<>>), Str("later"), Num(0), List(<<WeekEntry>>),
     Obj([week1 |-> Str("review")])}

RecommendedTopicsChoices ==
    {Absent, Null, List(<<>>), Num(5), Str("Algebra"), Obj([a |-> Num(1)]),
     List(<<Str("Fractions")>>),
     List(<<Str("Fractions"), Str("Grammar"), Str("Cells")>>)}

WeaknessesChoices == {Absent, Null, List(<<>>), List(<<Str("Reading")>>)}

StrengthsChoices == {Absent, List(<<Str("Math")>>)}

PathInputs ==
    {Build([difficulty_levels |-> a, estimated_completion_time |-> b,
            study_plan |-> c, recommended_topics |-> d, weaknesses |-> e,
            strengths |-> f]) :
        a \in DifficultyLevelChoices, b \in CompletionTimeChoices,
        c \in StudyPlanChoices, d \in RecommendedTopicsChoices,
        e \in WeaknessesChoices, f \in StrengthsChoices}

LongTermVisionChoices ==
    {Absent, Null, Obj([educational_trajectory |-> Str("STEM track")])}

MasteryProgressionChoices ==
    {Absent, Null, List(<<>>), Str("later"), Num(3),
     List(<<Obj([phase |-> Str("expert"),
                 focus_areas |-> List(<<Str("Research")>>)])>>),
     List(<<Obj([focus_areas |-> List(<<Str("Research")>>)])>>)}

DevelopmentTimelineChoices ==
    {Absent, Null, Obj([short_term_goals |-> List(<<Str("Pass the test")>>)])}

ExpertGuidanceChoices ==
    {Absent,
     List(<<Obj([topic |-> Str("Algebra"), expert_insights |-> Str("Drill")])>>)}

RoadmapInputs ==
    {Build([long_term_vision |-> a, mastery_progression |-> b,
            development_timeline |-> c, expert_guidance |-> d]) :
        a \in LongTermVisionChoices, b \in MasteryProgressionChoices,
        c \in DevelopmentTimelineChoices, d \in ExpertGuidanceChoices}

\* the repair of one stage applied to a dict
Repair(kind, doc, now) ==
    IF kind = "path" THEN EnsureValidStructure(doc, now)
    ELSE ValidateExpertRoadmap(doc)

----------------------------------------------------------------------------
(* Metrics: LLMLearningPathGenerator._calculate_basic_metrics and           *)
(* _analyze_difficulty_progression.  A percentage is held in tenths of a    *)
(* percent: 805 is 80.5.                                                     *)

AdvancedThreshold == 80
IntermediateThreshold == 60

\* _initialize_scores()
InitializeScores == [s \in SubjectSet |-> [correct |-> 0, total |-> 0]]

\* lines 71-78: the counting loop, adding to the scores already held
RECURSIVE CountResponses(_, _)
CountResponses(scores, qs) ==
    IF qs = <<>> THEN scores
    ELSE LET q == Head(qs)
             next == IF q.subject \in SubjectSet
                     THEN [scores EXCEPT
                             ![q.subject].total = @ + 1,
                             ![q.subject].correct = IF q.correct THEN @ + 1 ELSE @]
                     ELSE scores
         IN  CountResponses(next, Tail(qs))

\* round((correct / total) * 100, 1) in tenths, truncating instead of rounding
RoundTenths_Truncate(correct, total) == (1000 * correct) \div total

\* round((correct / total) * 100, 1), in tenths: the nearest tenth, a tie
\* going to the even tenth
RoundTenths(correct, total) ==
    LET n == 1000 * correct
        lo == n \div total
        twice == 2 * (n % total)
    IN  IF twice < total THEN lo
        ELSE IF twice > total THEN lo + 1
        ELSE IF lo % 2 = 0 THEN lo ELSE lo + 1

\* lines 80-93: the metrics computed from the scores
MetricsOf(scores) ==
    [s \in DOMAIN scores |->
        IF scores[s].total > 0
        THEN [percentage |-> RoundTenths(scores[s].correct, scores[s].total),
              correct |-> scores[s].correct,
              total |-> scores[s].total]
        ELSE [percentage |-> 0, correct |-> 0, total |-> 0]]

\* lines 102-107 with > for >=
DifficultyTier_Strict(pct10) ==
    IF pct10 > 10 * AdvancedThreshold THEN "Advanced"
    ELSE IF pct10 > 10 * IntermediateThreshold THEN "Intermediate"
    ELSE "Basic"

\* lines 102-107: the tier of one percentage
DifficultyTier(pct10) ==
    IF pct10 >= 10 * AdvancedThreshold THEN "Advanced"
    ELSE IF pct10 >= 10 * IntermediateThreshold THEN "Intermediate"
    ELSE "Basic"

\* lines 98-109
DifficultyMappingOf(metrics) ==
    [s \in DOMAIN metrics |-> DifficultyTier(metrics[s].percentage)]

NoMetrics == [s \in {} |-> 0]
NoMapping == [s \in {} |-> ""]

MaxQLen == 3
MaxBlock == 5
MaxMetricCalls == 3
MaxPct10 == 1000

QuestionKinds ==
    [subject : SubjectSet \cup {"General"}, correct : BOOLEAN]

RECURSIVE SeqsUpTo(_, _)
SeqsUpTo(S, n) ==
    IF n = 0 THEN {<<>>}
    ELSE LET shorter == SeqsUpTo(S, n - 1)
         IN  shorter \cup {Append(q, x) : q \in {y \in shorter : Len(y) = n - 1}, x \in S}

\* n responses of one subject, the first c of them correct
Block(subject, n, c) ==
    [i \in 1..n |-> [subject |-> subject, correct |-> i <= c]]

\* every short list of responses, and the lists of a block of Math responses
\* followed by a block of Reading responses
QuestionLists ==
    SeqsUpTo(QuestionKinds, MaxQLen)
    \cup {Block("Math", m, mc) \o Block("Reading", r, rc) :
             <<m, mc, r, rc>> \in
                 {x \in (0..MaxBlock) \X (0..MaxBlock) \X (0..MaxBlock) \X (0..MaxBlock) :
                     x[2] <= x[1] /\ x[4] <= x[3]}}

MetricsIdle ==
    /\ gen_mode = "off"
    /\ gen_questions = <<>>
    /\ gen_subject_scores = InitializeScores
    /\ gen_metrics = NoMetrics
    /\ gen_difficulty_mapping = NoMapping
    /\ gen_calls = 0
    /\ tier_pct = 0
    /\ tier_out = "Basic"

\* _create_analysis_prompt: metrics = self._calculate_basic_metrics()
CreateAnalysisPrompt ==
    /\ gen_mode = "metrics"
    /\ gen_calls < MaxMetricCalls
    /\ LET scores == CountResponses(gen_subject_scores, gen_questions) IN
       /\ gen_subject_scores' = scores
       /\ gen_metrics' = MetricsOf(scores)
    /\ gen_calls' = gen_calls + 1
    /\ UNCHANGED <<gen_mode, gen_questions, gen_difficulty_mapping, tier_pct, tier_out,
                   notMetricsVars>>

\* _analyze_difficulty_progression: the metrics computed again, then mapped
AnalyzeDifficultyProgression ==
    /\ gen_mode = "metrics"
    /\ gen_calls < MaxMetricCalls
    /\ LET scores == CountResponses(gen_subject_scores, gen_questions) IN
       /\ gen_subject_scores' = scores
       /\ gen_metrics' = MetricsOf(scores)
       /\ gen_difficulty_mapping' = DifficultyMappingOf(MetricsOf(scores))
    /\ gen_calls' = gen_calls + 1
    /\ UNCHANGED <<gen_mode, gen_questions, tier_pct, tier_out, notMetricsVars>>

\* the tier assignment applied to a higher percentage
RaisePercentage ==
    /\ gen_mode = "tier"
    /\ \E q \in (tier_pct + 1)..MaxPct10 :
          /\ tier_pct' = q
          /\ tier_out' = DifficultyTier(q)
    /\ UNCHANGED <<gen_mode, gen_questions, gen_subject_scores, gen_metrics,
                   gen_difficulty_mapping, gen_calls, notMetricsVars>>

----------------------------------------------------------------------------
(* Deterministic task strategy: TaskGenerator of tasks/services.py.  The    *)
(* string literal of line 216 is read as the text it evidently holds.       *)

\* difficulty_map, lines 15-26
DifficultyMap ==
    [basic |-> "easy", Basic |-> "easy",
     intermediate |-> "medium", Intermediate |-> "medium",
     advanced |-> "hard", Advanced |-> "hard",
     easy |-> "easy", medium |-> "medium", hard |-> "hard"]

\* line 27 with the default dropped: an unknown value is passed through
NormalizeDifficulty_PassThrough(difficulty) ==
    IF difficulty \in DOMAIN DifficultyMap THEN DifficultyMap[difficulty]
    ELSE difficulty

\* _normalize_difficulty: difficulty_map.get(difficulty, 'medium'), an exact
\* dictionary lookup
NormalizeDifficulty(difficulty) ==
    IF difficulty \in DOMAIN DifficultyMap THEN DifficultyMap[difficulty]
    ELSE "medium"

\* line 37 with one type lost
TaskTypes_Short == <<"quiz", "assignment">>

\* task_types, line 37
TaskTypes == <<"quiz", "assignment", "interactive">>

\* str.capitalize() on the task types
Capitalize(s) ==
    CASE s = "quiz" -> "Quiz"
      [] s = "assignment" -> "Assignment"
      [] s = "interactive" -> "Interactive"
      [] OTHER -> s

DefaultDueDays == 7

\* settings.TASK_GENERATION.get('DEFAULT_DUE_DAYS', 7)
DueDays(settings) == Get(settings, "DEFAULT_DUE_DAYS", Num(DefaultDueDays))

\* _generate_task_content with the interactive template lacking its
\* activity_type
GenerateTaskContent_NoActivity(task_type, objective) ==
    IF task_type = "quiz" THEN Obj([questions |-> List(<<>>)])
    ELSE IF task_type = "assignment" THEN Obj([instructions |-> Str(objective)])
    ELSE Obj([instructions |-> Str(objective)])

\* _generate_task_content, lines 59-232: the keys of each template and the
\* texts built from the objective; the fixed option, rubric and hint lists of
\* the nested entries are left out
GenerateTaskContent(task_type, objective) ==
    IF task_type = "quiz" THEN
        Obj([instructions |-> Str("Test your knowledge about " \o objective),
             questions |-> List(<<
                 Obj([question |-> Str("What is the primary purpose of " \o objective \o "?"),
                      correct_answer |-> Num(0), type |-> Str("multiple_choice")]),
                 Obj([question |-> Str("Which of the following best describes " \o objective \o "?"),
                      correct_answer |-> Num(1), type |-> Str("multiple_choice")]),
                 Obj([question |-> Str("True or False: Regular practice is essential for mastering this concept."),
                      correct_answer |-> Num(0), type |-> Str("boolean")]),
                 Obj([question |-> Str("What are the key components of " \o objective \o "?"),
                      type |-> Str("short_answer"), max_words |-> Num(100)])>>),
             time_limit |-> Num(30),
             passing_score |-> Num(70),
             show_explanations |-> Bool(TRUE)])
    ELSE IF task_type = "assignment" THEN
        Obj([instructions |-> Str("Complete this comprehensive assignment about " \o objective),
             sections |-> List(<<
                 Obj([title |-> Str("Theoretical Understanding"),
                      description |-> Str("Explain the core concepts of " \o objective),
                      type |-> Str("essay"), word_limit |-> Num(500)]),
                 Obj([title |-> Str("Practical Application"),
                      description |-> Str("Design a solution using principles of " \o objective),
                      type |-> Str("project")]),
                 Obj([title |-> Str("Reflection"),
                      description |-> Str("Reflect on your learning experience"),
                      type |-> Str("short_answer")])>>),
             submission_format |-> Str("pdf"),
             resources |-> List(<<Str("Course materials"), Str("Online documentation"),
                                 Str("Reference examples")>>),
             grading_criteria |-> Obj([content |-> Num(40), analysis |-> Num(30),
                                       presentation |-> Num(20), reflection |-> Num(10)])])
    ELSE
        Obj([activity_type |-> Str("multi_stage_practice"),
             instructions |-> Str("Complete this interactive learning session about " \o objective),
             stages |-> List(<<
                 Obj([title |-> Str("Concept Review"), type |-> Str("matching")]),
                 Obj([title |-> Str("Practical Exercise"), type |-> Str("simulation"),
                      scenario |-> Str("Apply " \o objective \o " in a real-world situation")]),
                 Obj([title |-> Str("Knowledge Check"), type |-> Str("drag_and_drop")])>>),
             progress_tracking |-> Obj([minimum_score |-> Num(70),
                                        attempts_allowed |-> Num(3),
                                        time_limit |-> Num(45)]),
             completion_criteria |-> Obj([all_stages_completed |-> Bool(TRUE),
                                          minimum_accuracy |-> Num(80),
                                          minimum_time_spent |-> Num(15)])])

\* the task dict of lines 41-53
BasicTask(task_type, objective, normalized, settings, now) ==
    [title |-> Str(objective \o " - " \o Capitalize(task_type)),
     description |-> Str("Complete this " \o task_type \o " to master " \o objective),
     task_type |-> Str(task_type),
     difficulty |-> Str(normalized),
     learning_objective |-> Str(objective),
     estimated_time |-> Str("30 minutes"),
     points |-> Num(100),
     content |-> GenerateTaskContent(task_type, objective),
     status |-> Str("active"),
     created_at |-> Str(FormatDate(now)),
     due_days |-> DueDays(settings)]

\* TaskGenerator.generate_tasks(learning_objective, difficulty, student_grade)
GenerateTasks(objective, difficulty, grade, settings, now) ==
    [i \in 1..Len(TaskTypes) |->
        BasicTask(TaskTypes[i], objective, NormalizeDifficulty(difficulty),
                  settings, now)]

NotGenerated == <<>>

Objectives == {"", "Fractions", "Photosynthesis", "Essay writing"}

\* the letter-case variants of the six words of the table held by the model
CaseVariants ==
    [basic |-> {"basic", "Basic", "BASIC", "bAsIc"},
     intermediate |-> {"intermediate", "Intermediate", "INTERMEDIATE", "interMediate"},
     advanced |-> {"advanced", "Advanced", "ADVANCED", "aDvanced"},
     easy |-> {"easy", "Easy", "EASY"},
     medium |-> {"medium", "Medium", "MEDIUM"},
     hard |-> {"hard", "Hard", "HARD", "hArd"}]

Difficulties ==
    UNION {CaseVariants[w] : w \in DOMAIN CaseVariants}
    \cup {"unknown", "", "expert", "beginner", "3"}

Grades == {"5", "8"}

TaskSettings == {EmptyMap, [DEFAULT_DUE_DAYS |-> Num(14)]}

TasksIdle ==
    /\ tg_objective = ""
    /\ tg_difficulty = ""
    /\ tg_grade = ""
    /\ tg_settings = EmptyMap
    /\ tg_now = 0
    /\ tg_normalized = ""
    /\ tg_tasks = NotGenerated

\* a call of generate_tasks with its arguments, as made by a caller
CallGenerateTasks ==
    /\ tg_tasks = NotGenerated
    /\ tg_normalized' = NormalizeDifficulty(tg_difficulty)
    /\ tg_tasks' = GenerateTasks(tg_objective, tg_difficulty, tg_grade,
                                 tg_settings, tg_now)
    /\ UNCHANGED <<tg_objective, tg_difficulty, tg_grade, tg_settings, tg_now,
                   notTaskVars>>

----------------------------------------------------------------------------
(* Request texts.  A question or answer text is a sequence of characters,   *)
(* so that lower() and the substring test of _determine_subject are         *)
(* computed.                                                                 *)

UpperLetters == <<"A", "B", "C", "D", "E", "F", "G", "H", "I", "J", "K", "L", "M",
                  "N", "O", "P", "Q", "R", "S", "T", "U", "V", "W", "X", "Y", "Z">>
LowerLetters == <<"a", "b", "c", "d", "e", "f", "g", "h", "i", "j", "k", "l", "m",
                  "n", "o", "p", "q", "r", "s", "t", "u", "v", "w", "x", "y", "z">>

\* str.lower(), character by character
LowerChar(c) ==
    IF \E i \in 1..Len(UpperLetters) : UpperLetters[i] = c
    THEN LowerLetters[CHOOSE i \in 1..Len(UpperLetters) : UpperLetters[i] = c]
    ELSE c
LowerText(txt) == [i \in 1..Len(txt) |-> LowerChar(txt[i])]

\* `keyword in question`: keyword occurs as a substring
IsSubstring(keyword, txt) ==
    \E i \in 1..(Len(txt) - Len(keyword) + 1) :
        SubSeq(txt, i, i + Len(keyword) - 1) = keyword

\* the keyword table of _determine_subject, lines 655-660, in its order
SubjectKeywords == <<
    [subject |-> "Math", keywords |-> <<
        <<"m", "a", "t", "h">>,
        <<"a", "r", "i", "t", "h", "m", "e", "t", "i", "c">>,
        <<"a", "l", "g", "e", "b", "r", "a">>,
        <<"e", "q", "u", "a", "t", "i", "o", "n">>,
        <<"n", "u", "m", "b", "e", "r">>>>],
    [subject |-> "Reading", keywords |-> <<
        <<"r", "e", "a", "d", "i", "n", "g">>,
        <<"s", "t", "o", "r", "y">>,
        <<"p", "a", "s", "s", "a", "g", "e">>,
        <<"t", "e", "x", "t">>,
        <<"c", "o", "m", "p", "r", "e", "h", "e", "n", "s", "i", "o", "n">>>>],
    [subject |-> "Science", keywords |-> <<
        <<"s", "c", "i", "e", "n", "c", "e">>,
        <<"s", "c", "i", "e", "n", "t", "i", "f", "i", "c">>,
        <<"b", "i", "o", "l", "o", "g", "y">>,
        <<"c", "h", "e", "m", "i", "s", "t", "r", "y">>,
        <<"p", "h", "y", "s", "i", "c", "s">>>>],
    [subject |-> "Language", keywords |-> <<
        <<"g", "r", "a", "m", "m", "a", "r">>,
        <<"s", "e", "n", "t", "e", "n", "c", "e">>,
        <<"v", "o", "c", "a", "b", "u", "l", "a", "r", "y">>,
        <<"s", "p", "e", "l", "l", "i", "n", "g">>,
        <<"w", "r", "i", "t", "i", "n", "g">>>>]>>

\* the keyword test of line 664 with the lower() of line 662 left out
MatchesSubject_CaseSensitive(entry, question) ==
    \E k \in 1..Len(entry.keywords) : IsSubstring(entry.keywords[k], question)

\* line 664: any(keyword in question for keyword in keywords), question lowered
MatchesSubject(entry, question) ==
    \E k \in 1..Len(entry.keywords) :
        IsSubstring(entry.keywords[k], LowerText(question))

\* _determine_subject(question): the first subject of the table with a
\* keyword in the lowered question, General when there is none
DetermineSubject(question) ==
    IF \E i \in 1..Len(SubjectKeywords) : MatchesSubject(SubjectKeywords[i], question)
    THEN LET first == CHOOSE i \in 1..Len(SubjectKeywords) :
                        /\ MatchesSubject(SubjectKeywords[i], question)
                        /\ \A j \in 1..(i - 1) : ~MatchesSubject(SubjectKeywords[j], question)
         IN  SubjectKeywords[first].subject
    ELSE "General"

Q_Equation == <<"S", "o", "l", "v", "e", " ", "t", "h", "e", " ", "E", "q", "u", "a", "t", "i", "o", "n">>
Q_Story == <<"t", "h", "e", " ", "S", "T", "O", "R", "Y">>
Q_BiologyText == <<"B", "i", "o", "l", "o", "g", "y", " ", "t", "e", "x", "t">>
Q_Planet == <<"N", "a", "m", "e", " ", "a", " ", "p", "l", "a", "n", "e", "t">>
Q_Spelling == <<"s", "p", "e", "l", "l", "i", "n", "g", " ", "b", "e", "e">>
A_correct == <<"c", "o", "r", "r", "e", "c", "t">>
A_Correct == <<"C", "o", "r", "r", "e", "c", "t">>
A_wrong == <<"w", "r", "o", "n", "g">>

----------------------------------------------------------------------------
(* LLM client and merge: LLMLearningPathGenerator._call_llm_api,            *)
(* _merge_learning_path_and_roadmap and the tail of generate_learning_path  *)

\* str(e) of line 138; the wording of the exception is not told apart
ExceptionText == "str(e)"

\* the dict returned by the except branch of _call_llm_api, lines 135-144
ErrorResult(message) ==
    [error |-> Str(message),
     learning_path |-> Obj([strengths |-> List(<<>>),
                            weaknesses |-> List(<<>>),
                            recommended_topics |-> List(<<>>)])]

\* lines 126-144 with the except branch re-raising instead of returning
CallLLMApi_Raising(outcome) ==
    IF outcome.kind = "json" THEN Ok(outcome.body)
    ELSE Raise("LLMError", EmptyMap)

\* _call_llm_api(prompt) on one outcome of the HTTP exchange: the decoded
\* completion, or for a transport error (requests.post / raise_for_status)
\* and for an undecodable body or completion text (response.json /
\* json.loads) the error dict; the call itself never raises
CallLLMApi(outcome) ==
    IF outcome.kind = "json" THEN Ok(outcome.body)
    ELSE Ok(ErrorResult(ExceptionText))

\* a set as a sequence, in one fixed order
RECURSIVE SetToSeq(_)
SetToSeq(S) ==
    IF S = {} THEN <<>>
    ELSE LET x == CHOOSE y \in S : TRUE IN <<x>> \o SetToSeq(S \ {x})

\* the elements of q at the positions idx, ordered by rank
RECURSIVE OrderBy(_, _, _)
OrderBy(q, idx, rank) ==
    IF idx = {} THEN <<>>
    ELSE LET i == CHOOSE j \in idx : \A k \in idx : rank[j] <= rank[k]
         IN  <<q[i]>> \o OrderBy(q, idx \ {i}, rank)

\* list(set(xs)): the distinct elements of xs in the iteration order of the
\* set, which the interpreter's string hashing decides; ord, a permutation of
\* 1..Len(ord), stands for that order (elements beyond Len(ord) keep the
\* fixed order)
ListOfSet(xs, ord) ==
    LET base == SetToSeq({xs[i] : i \in 1..Len(xs)})
        n == IF Len(base) < Len(ord) THEN Len(base) ELSE Len(ord)
        rank == [i \in 1..n |-> CHOOSE r \in 1..Len(ord) : ord[r] = i]
    IN  OrderBy(base, 1..n, rank) \o SubSeq(base, n + 1, Len(base))

\* list(set(xs)) keeping duplicates: the concatenation as it is
ListOfSet_NoDedup(xs, ord) == xs

\* set(xs) raises TypeError on an unhashable element (a list or a dict)
Unhashable(x) == x.t \in {"list", "obj"}

\* `for x in v`: None, numbers and bools are not iterable
IterRaises(v) == v.t \in {"null", "num", "bool"}

\* the values `for x in v` yields: the elements of a list; for a str its
\* characters and for a dict its keys, each a str
ItemsOf(v) ==
    CASE v.t = "list" -> v.v
      [] v.t = "str" -> IF v.v = "" THEN <<>> ELSE <<Str(v.v)>>
      [] v.t = "obj" -> SetToSeq({Str(k) : k \in DOMAIN v.v})
      [] OTHER -> <<>>

\* the skill_roadmap key a phase name feeds, "" for a phase that is skipped
TierKey(name) ==
    CASE name = Str("beginner") -> "foundational_skills"
      [] name = Str("intermediate") -> "intermediate_skills"
      [] name \in {Str("advanced"), Str("expert")} -> "advanced_skills"
      [] OTHER -> ""

\* lines 441-455 for one phase; plan is the comprehensive plan so far
MergePhase(plan, phase, ord) ==
    IF phase.t # "obj" THEN Raise("TypeError", plan)
    ELSE IF "phase" \notin DOMAIN phase.v THEN Raise("KeyError", plan)
    ELSE LET key == TierKey(phase.v["phase"])
             sr == plan["skill_roadmap"]
         IN  IF key = "" THEN Ok(plan)
             ELSE IF sr.t # "obj" THEN Raise("AttributeError", plan)
             ELSE LET mine == Get(sr.v, key, List(<<>>))
                      theirs == Get(phase.v, "focus_areas", List(<<>>))
                  IN  \* list + list; any other pair of the model's values
                      \* raises TypeError (two strs, which would concatenate,
                      \* are not among them)
                      IF mine.t # "list" \/ theirs.t # "list"
                      THEN Raise("TypeError", plan)
                      ELSE IF \E i \in 1..Len(mine.v \o theirs.v) :
                                 Unhashable((mine.v \o theirs.v)[i])
                      THEN Raise("TypeError", plan)
                      ELSE Ok(SetKey(plan, "skill_roadmap",
                                Obj(SetKey(sr.v, key,
                                    List(ListOfSet(mine.v \o theirs.v, ord))))))

\* the loop of line 440
RECURSIVE MergePhases(_, _, _)
MergePhases(plan, phases, ord) ==
    IF phases = <<>> THEN Ok(plan)
    ELSE LET r == MergePhase(plan, Head(phases), ord) IN
         IF ~r.ok THEN r ELSE MergePhases(r.val, Tail(phases), ord)

\* lines 439-455
MergeSkillRoadmap(plan, roadmap, ord) ==
    IF "skill_roadmap" \in DOMAIN plan /\ "mastery_progression" \in DOMAIN roadmap
    THEN IF IterRaises(roadmap["mastery_progression"]) THEN Raise("TypeError", plan)
         ELSE MergePhases(plan, ItemsOf(roadmap["mastery_progression"]), ord)
    ELSE Ok(plan)

\* lines 463-469 with the topic read by .get
MergeGuidance_TopicOptional(plan, guidance) ==
    IF guidance.t # "obj" THEN Raise("TypeError", plan)
    ELSE IF plan["mentor_guidance"].t # "list" THEN Raise("AttributeError", plan)
    ELSE Ok(SetKey(plan, "mentor_guidance",
              List(Append(plan["mentor_guidance"].v,
                  Obj([topic |-> Get(guidance.v, "topic", Str("")),
                       advice |-> Get(guidance.v, "expert_insights", Str("")),
                       common_pitfalls |->
                           Get(guidance.v, "common_misconceptions", List(<<>>)),
                       success_strategies |->
                           Get(guidance.v, "advanced_techniques", List(<<>>))])))))

\* lines 463-469 with the advice taken from the topic
MergeGuidance_AdviceFromTopic(plan, guidance) ==
    IF guidance.t # "obj" THEN Raise("TypeError", plan)
    ELSE IF "topic" \notin DOMAIN guidance.v THEN Raise("KeyError", plan)
    ELSE IF plan["mentor_guidance"].t # "list" THEN Raise("AttributeError", plan)
    ELSE Ok(SetKey(plan, "mentor_guidance",
              List(Append(plan["mentor_guidance"].v,
                  Obj([topic |-> guidance.v["topic"],
                       advice |-> guidance.v["topic"],
                       common_pitfalls |->
                           Get(guidance.v, "common_misconceptions", List(<<>>)),
                       success_strategies |->
                           Get(guidance.v, "advanced_techniques", List(<<>>))])))))

\* lines 463-469 for one expert_guidance entry
MergeGuidance(plan, guidance) ==
    IF guidance.t # "obj" THEN Raise("TypeError", plan)
    ELSE IF "topic" \notin DOMAIN guidance.v THEN Raise("KeyError", plan)
    ELSE IF plan["mentor_guidance"].t # "list" THEN Raise("AttributeError", plan)
    ELSE Ok(SetKey(plan, "mentor_guidance",
              List(Append(plan["mentor_guidance"].v,
                  Obj([topic |-> guidance.v["topic"],
                       advice |-> Get(guidance.v, "expert_insights", Str("")),
                       common_pitfalls |->
                           Get(guidance.v, "common_misconceptions", List(<<>>)),
                       success_strategies |->
                           Get(guidance.v, "advanced_techniques", List(<<>>))])))))

\* the loop of line 462
RECURSIVE MergeGuidances(_, _)
MergeGuidances(plan, guidances) ==
    IF guidances = <<>> THEN Ok(plan)
    ELSE LET r == MergeGuidance(plan, Head(guidances)) IN
         IF ~r.ok THEN r ELSE MergeGuidances(r.val, Tail(guidances))

\* lines 458-469
MergeMentorGuidance(plan, roadmap) ==
    IF "expert_guidance" \in DOMAIN roadmap
    THEN LET p1 == IF "mentor_guidance" \notin DOMAIN plan
                   THEN SetKey(plan, "mentor_guidance", List(<<>>))
                   ELSE plan
         IN  IF IterRaises(roadmap["expert_guidance"]) THEN Raise("TypeError", p1)
             ELSE MergeGuidances(p1, ItemsOf(roadmap["expert_guidance"]))
    ELSE Ok(plan)

\* _merge_learning_path_and_roadmap(learning_path, roadmap)
MergeLearningPathAndRoadmap(path, roadmap, ord) ==
    LET plan == SetKey(path, "expert_roadmap", Obj(roadmap))
        r1 == MergeSkillRoadmap(plan, roadmap, ord)
    IN  IF ~r1.ok THEN r1 ELSE MergeMentorGuidance(r1.val, roadmap)

\* the learning path the merge was called with, had line 433 copied it deeply
InputAfterMerge_DeepCopy(path, plan) == path

\* the learning path the merge was called with, as it is once the merge has
\* returned plan: line 433 copies the dict but not the objects it holds, so
\* the tier lists set inside skill_roadmap (442-455) and the entries
\* appended to mentor_guidance (469) show in it; the keys assigned on the
\* copy (436, 460) do not
InputAfterMerge(path, plan) ==
    [k \in DOMAIN path |->
        IF k \in {"skill_roadmap", "mentor_guidance"} THEN plan[k] ELSE path[k]]

\* lines 495-498 with every analysis key copied, present or not
AddStudentInfoAndAnalysis_Overwrite(plan, info, analysed) ==
    LET p1 == SetKey(plan, "student_info", info) IN
    [k \in (DOMAIN p1) \cup (DOMAIN analysed) |->
        IF k \in DOMAIN analysed THEN analysed[k] ELSE p1[k]]

\* lines 495-498: student_info set, then the analysis keys not yet present
AddStudentInfoAndAnalysis(plan, info, analysed) ==
    LET p1 == SetKey(plan, "student_info", info) IN
    [k \in (DOMAIN p1) \cup (DOMAIN analysed) |->
        IF k \in DOMAIN p1 THEN p1[k] ELSE analysed[k]]

----------------------------------------------------------------------------
(* Path generation requests: LearningPathView.post and                      *)
(* LLMLearningPathGenerator.generate_learning_path.  A request is one       *)
(* action up to each blocking LLM call and one action per returned call.    *)

Reqs == {"r1", "r2"}

\* the rows of the user table
Users == {1, 2}
Username(uid) == IF uid = 1 THEN "asha" ELSE "ben"

NoResponse == [status |-> 0, error |-> ""]
HttpResponse(status, error) == [status |-> status, error |-> error]

\* a response entry with both fields
Entry(question, answer) == Obj([question |-> Str(question), answer |-> Str(answer)])

\* _validate_responses raises ValueError: an entry that is no object, or one
\* without question or answer
ValidateResponsesRaises(rs) ==
    \E i \in 1..Len(rs) :
        \/ rs[i].t # "obj"
        \/ ~({"question", "answer"} \subseteq DOMAIN rs[i].v)

\* lines 592-598 raise AttributeError: lower() on a value that is no str
BuildQuestionsRaises(rs) ==
    \E i \in 1..Len(rs) :
        rs[i].v["answer"].t # "str" \/ rs[i].v["question"].t # "str"

\* lines 592-598: the question dicts handed to the generator
BuildQuestions(rs) ==
    [i \in 1..Len(rs) |->
        [question_text |-> rs[i].v["question"].v,
         correct |-> LowerText(rs[i].v["answer"].v) = A_correct,
         subject |-> DetermineSubject(rs[i].v["question"].v)]]

\* request.data["responses"] as lines 574-585 tell it apart: missing, empty,
\* malformed (an entry that is no object or lacks question or answer) or
\* well formed
ResponsesKind(responses_in) ==
    IF responses_in = Absent THEN "missing"
    ELSE IF Falsy(responses_in) THEN "empty"
    ELSE IF ValidateResponsesRaises(responses_in.v) THEN "malformed"
    ELSE "well formed"

NoPathRequest == [user_id |-> Null, responses |-> "none"]

\* lines 573-603 with the ValueError of _validate_responses answered like
\* any other exception
PostRejection_ValidationAs500(user_id, responses, key) ==
    IF Falsy(user_id) THEN HttpResponse(400, "user_id is required")
    ELSE IF Falsy(responses) THEN HttpResponse(400, "No responses provided")
    ELSE IF user_id.v \notin Users THEN HttpResponse(404, "User not found")
    ELSE IF ValidateResponsesRaises(responses.v)
         THEN HttpResponse(500, "Failed to generate learning path")
    ELSE IF BuildQuestionsRaises(responses.v)
         THEN HttpResponse(500, "Failed to generate learning path")
    ELSE IF key = "" THEN HttpResponse(400, "Groq API key must be provided")
    ELSE NoResponse

\* lines 573-603: the response that ends the request before the generator
\* runs, NoResponse when the generator is constructed
PostRejection(user_id, responses, key) ==
    IF Falsy(user_id) THEN HttpResponse(400, "user_id is required")
    ELSE IF Falsy(responses) THEN HttpResponse(400, "No responses provided")
    ELSE IF user_id.v \notin Users THEN HttpResponse(404, "User not found")
    ELSE IF ValidateResponsesRaises(responses.v)
         THEN HttpResponse(400, "Each response must be valid")
    ELSE IF BuildQuestionsRaises(responses.v)
         THEN HttpResponse(500, "Failed to generate learning path")
    ELSE IF key = "" THEN HttpResponse(400, "Groq API key must be provided")
    ELSE NoResponse

\* the generator of a request that has ended is dropped
Drop(f, r, init) == [f EXCEPT ![r] = init]

\* post(request) up to the first LLM call: validation, the question dicts,
\* the generator, the analysis prompt (which computes the metrics) and the
\* call of the analysis stage
PostRequest(r, user_id, responses_in) ==
    LET responses == IF responses_in = Absent THEN List(<<>>) ELSE responses_in
        rejection == PostRejection(user_id, responses, api_key)
    IN
    /\ pc[r] = "Idle"
    /\ request' = [request EXCEPT ![r] =
                       [user_id |-> user_id, responses |-> ResponsesKind(responses_in)]]
    /\ IF rejection # NoResponse
       THEN /\ pc' = [pc EXCEPT ![r] = "Failed"]
            /\ response' = [response EXCEPT ![r] = rejection]
            /\ UNCHANGED <<questions, student_info, subject_scores, llm_calls>>
       ELSE /\ pc' = [pc EXCEPT ![r] = "AnalyzeRequested"]
            /\ questions' = [questions EXCEPT ![r] = BuildQuestions(responses.v)]
            /\ student_info' = [student_info EXCEPT ![r] =
                   Obj([user_id |-> user_id, username |-> Str(Username(user_id.v))])]
            /\ subject_scores' = [subject_scores EXCEPT ![r] =
                   CountResponses(InitializeScores, BuildQuestions(responses.v))]
            /\ llm_calls' = [llm_calls EXCEPT ![r] = <<"analysis">>]
            /\ UNCHANGED response
    /\ UNCHANGED <<api_key, clock, analysis, learning_path, llm_failed,
                   llm_answers, db, notPathVars>>

\* lines 620-628: the response for an exception raised inside the try block
ErrorResponse(err) ==
    IF err = "ValueError" THEN HttpResponse(400, err)
    ELSE HttpResponse(500, "Failed to generate learning path")

\* an error response that ends every running request with it
FailRequest_Everyone(r, err) ==
    /\ pc' = [q \in Reqs |-> IF pc[q] \in {"Idle", "Merged"} /\ q # r
                              THEN pc[q] ELSE "Failed"]
    /\ response' = [response EXCEPT ![r] = ErrorResponse(err)]
    /\ questions' = Drop(questions, r, <<>>)
    /\ subject_scores' = Drop(subject_scores, r, InitializeScores)
    /\ analysis' = Drop(analysis, r, EmptyMap)
    /\ learning_path' = Drop(learning_path, r, EmptyMap)
    /\ llm_answers' = Drop(llm_answers, r, <<>>)
    /\ UNCHANGED <<student_info, db>>

\* a request ends with an error response; nothing is written
FailRequest(r, err) ==
    /\ pc' = [pc EXCEPT ![r] = "Failed"]
    /\ response' = [response EXCEPT ![r] = ErrorResponse(err)]
    /\ questions' = Drop(questions, r, <<>>)
    /\ subject_scores' = Drop(subject_scores, r, InitializeScores)
    /\ analysis' = Drop(analysis, r, EmptyMap)
    /\ learning_path' = Drop(learning_path, r, EmptyMap)
    /\ llm_answers' = Drop(llm_answers, r, <<>>)
    /\ UNCHANGED <<student_info, db>>

\* the except branch of _call_llm_api ran for the call of this stage
NoteOutcome(r, stage, outcome) ==
    llm_failed' = [llm_failed EXCEPT ![r] =
                      IF outcome.kind = "json" THEN @ ELSE @ \cup {stage}]

\* the analysis call returning with a failed call issued once more
AnalysisReturns_Retry(r, outcome) ==
    /\ pc[r] = "AnalyzeRequested"
    /\ IF outcome.kind # "json"
       THEN /\ llm_calls' = [llm_calls EXCEPT ![r] = Append(@, "analysis")]
            /\ UNCHANGED <<pc, analysis, subject_scores, llm_answers>>
       ELSE /\ pc' = [pc EXCEPT ![r] = "PathRequested"]
            /\ analysis' = [analysis EXCEPT ![r] = outcome.body]
            /\ llm_answers' = [llm_answers EXCEPT ![r] = Append(@, outcome.body)]
            /\ subject_scores' = [subject_scores EXCEPT ![r] =
                   CountResponses(subject_scores[r], questions[r])]
            /\ llm_calls' = [llm_calls EXCEPT ![r] = Append(@, "learning_path")]
    /\ NoteOutcome(r, "analysis", outcome)
    /\ UNCHANGED <<questions, student_info, learning_path, response, db,
                   api_key, clock, request, notPathVars>>

\* the analysis call returns: lines 477-481, the learning-path prompt (which
\* computes the metrics again for the difficulty mapping) and the call of
\* the learning-path stage
AnalysisReturns(r, outcome) ==
    LET got == CallLLMApi(outcome) IN
    /\ pc[r] = "AnalyzeRequested"
    /\ IF ~got.ok
       THEN /\ FailRequest(r, got.err)
            /\ UNCHANGED llm_calls
       ELSE /\ pc' = [pc EXCEPT ![r] = "PathRequested"]
            /\ analysis' = [analysis EXCEPT ![r] = got.val]
            /\ llm_answers' = [llm_answers EXCEPT ![r] = Append(@, got.val)]
            /\ subject_scores' = [subject_scores EXCEPT ![r] =
                   CountResponses(subject_scores[r], questions[r])]
            /\ llm_calls' = [llm_calls EXCEPT ![r] = Append(@, "learning_path")]
            /\ UNCHANGED <<questions, student_info, learning_path, response, db>>
    /\ NoteOutcome(r, "analysis", outcome)
    /\ UNCHANGED <<api_key, clock, request, notPathVars>>

\* the learning-path call returns: lines 481-488, the repair, the roadmap
\* prompt and the call of the roadmap stage
PathReturns(r, outcome) ==
    LET got == CallLLMApi(outcome)
        repaired == IF got.ok THEN EnsureValidStructure(got.val, clock) ELSE got
    IN
    /\ pc[r] = "PathRequested"
    /\ IF ~repaired.ok
       THEN /\ FailRequest(r, repaired.err)
            /\ UNCHANGED llm_calls
       ELSE /\ pc' = [pc EXCEPT ![r] = "RoadmapRequested"]
            /\ learning_path' = [learning_path EXCEPT ![r] = repaired.val]
            /\ llm_answers' = [llm_answers EXCEPT ![r] = Append(@, got.val)]
            /\ llm_calls' = [llm_calls EXCEPT ![r] = Append(@, "expert_roadmap")]
            /\ UNCHANGED <<questions, student_info, subject_scores, analysis,
                           response, db>>
    /\ NoteOutcome(r, "learning_path", outcome)
    /\ UNCHANGED <<api_key, clock, request, notPathVars>>

\* a row owned by the first user whoever asked
NewRow_FirstUser(r, rows, student, path_data, now) ==
    [id |-> Len(rows) + 1, student |-> 1, path_data |-> path_data,
     created_at |-> now, req |-> r]

\* a row of the LearningPath table (path/models.py), req the request that
\* wrote it
NewRow(r, rows, student, path_data, now) ==
    [id |-> Len(rows) + 1, student |-> student, path_data |-> path_data,
     created_at |-> now, req |-> r]

\* the roadmap call returns: lines 488-500 and 606-618: the roadmap repair,
\* the merge, student_info and the analysis keys, the row written and the
\* 201 response
RoadmapReturns(r, outcome, ord) ==
    LET got == CallLLMApi(outcome)
        roadmap == IF got.ok THEN ValidateExpertRoadmap(got.val) ELSE got
        merged == IF roadmap.ok
                  THEN MergeLearningPathAndRoadmap(learning_path[r], roadmap.val, ord)
                  ELSE roadmap
    IN
    /\ pc[r] = "RoadmapRequested"
    /\ IF ~merged.ok
       THEN FailRequest(r, merged.err)
       ELSE LET plan == AddStudentInfoAndAnalysis(merged.val, student_info[r],
                                                  analysis[r])
            IN  /\ pc' = [pc EXCEPT ![r] = "Merged"]
                /\ db' = Append(db, NewRow(r, db, student_info[r].v["user_id"].v,
                                           plan, clock))
                /\ response' = [response EXCEPT ![r] =
                       HttpResponse(201, "Learning path generated successfully")]
                /\ learning_path' = [learning_path EXCEPT ![r] =
                       InputAfterMerge(learning_path[r], merged.val)]
                /\ questions' = Drop(questions, r, <<>>)
                /\ subject_scores' = Drop(subject_scores, r, InitializeScores)
                /\ analysis' = Drop(analysis, r, EmptyMap)
                /\ llm_answers' = Drop(llm_answers, r, <<>>)
                /\ UNCHANGED student_info
    /\ NoteOutcome(r, "expert_roadmap", outcome)
    /\ UNCHANGED <<api_key, clock, request, llm_calls, notPathVars>>

----------------------------------------------------------------------------
(* LLM task strategy: LLMTaskGenerator, tasks/services.py lines 334-664 *)

\* str(v) as an f-string renders it, for the values topics carry
PyStr(v) ==
    CASE v.t = "str" -> v.v
      [] v.t = "null" -> "None"
      [] v.t = "num" -> ToString(v.v)
      [] OTHER -> "?"

\* _generate_fallback_content: the keys of each template; the fixed sample
\* questions and items are left out
GenerateFallbackContent(task_type) ==
    IF task_type = "quiz" THEN Obj([questions |-> List(<<Str("Sample question 1"),
                                                          Str("Sample question 2")>>)])
    ELSE IF task_type = "assignment"
    THEN Obj([instructions |-> Str("Complete this basic assignment"),
              questions |-> List(<<Str("Write a short essay")>>)])
    ELSE Obj([activity_type |-> Str("matching"),
              items |-> List(<<Str("Term 1"), Str("Term 2")>>),
              matches |-> List(<<Str("Definition 1"), Str("Definition 2")>>)])

\* _generate_fallback_tasks with the last task type lost
GenerateFallbackTasks_Two(settings, now) ==
    [i \in 1..2 |->
        Obj([title |-> Str("Basic " \o Capitalize(TaskTypes[i]) \o " Task"),
             task_type |-> Str(TaskTypes[i]),
             difficulty |-> Str("medium"),
             content |-> Obj(EmptyMap)])]

\* _generate_fallback_tasks: three generic tasks
GenerateFallbackTasks(settings, now) ==
    [i \in 1..Len(TaskTypes) |->
        Obj([title |-> Str("Basic " \o Capitalize(TaskTypes[i]) \o " Task"),
             description |-> Str("A basic " \o TaskTypes[i] \o " to test your knowledge"),
             task_type |-> Str(TaskTypes[i]),
             difficulty |-> Str("medium"),
             estimated_time |-> Str("30 minutes"),
             points |-> Num(100),
             content |-> GenerateFallbackContent(TaskTypes[i]),
             created_at |-> Str(FormatDate(now)),
             due_days |-> DueDays(settings),
             status |-> Str("active")])]

\* _generate_topic_specific_content: the keys of each template
GenerateTopicSpecificContent(topic, task_type) ==
    LET title == PyStr(Get(topic, "title", Str("Unknown Topic"))) IN
    IF task_type = "quiz"
    THEN Obj([instructions |-> Str("Test your knowledge of " \o title),
              questions |-> List(<<Str("What is the main concept of " \o title \o "?")>>)])
    ELSE IF task_type = "assignment"
    THEN Obj([instructions |-> Str("Apply your knowledge of " \o title),
              questions |-> List(<<Str("Explain the key principles of " \o title)>>)])
    ELSE Obj([instructions |-> Str("Practice " \o title \o " concepts interactively"),
              activity_type |-> Str("matching"),
              items |-> List(<<Str("Key concept 1 from " \o title),
                               Str("Key concept 2 from " \o title)>>)])

\* settings.TASK_GENERATION.get('TASK_TYPE_DISTRIBUTION', {}).keys(): the
\* setting is held as the list of its keys in dict order, the weights left out
DistributionKeys(settings) == Get(settings, "TASK_TYPE_DISTRIBUTION", List(<<>>)).v

\* _generate_fallback_topic_tasks giving no task for the topic
GenerateFallbackTopicTasks_None(topic, settings, now) == <<>>

\* _generate_fallback_topic_tasks(topic): the per-topic template tasks
GenerateFallbackTopicTasks(topic, settings, now) ==
    LET title == Get(topic, "title", Str("Unknown Topic"))
        types == DistributionKeys(settings)
    IN  [i \in 1..Len(types) |->
            Obj([title |-> Str(PyStr(title) \o " - " \o Capitalize(types[i].v)),
                 description |-> Str("Practice " \o PyStr(title) \o " concepts"),
                 task_type |-> types[i],
                 difficulty |-> Get(topic, "difficulty", Str("medium")),
                 estimated_time |-> Str("30 minutes"),
                 points |-> Num(100),
                 content |-> GenerateTopicSpecificContent(topic, types[i].v),
                 topic |-> title,
                 learning_objective |-> Get(topic, "objectives", List(<<>>)),
                 created_at |-> Str(FormatDate(now)),
                 due_days |-> DueDays(settings),
                 status |-> Str("active")])]

RequiredFields == {"title", "task_type", "difficulty", "content"}

\* lines 659-665: task_data.update({...}); every other key is left as the LLM
\* gave it
ValidatedTask(task_data, topic, now) ==
    [k \in DOMAIN task_data \cup
           {"topic", "learning_objective", "created_at", "due_days", "status"} |->
        CASE k = "topic" -> Get(topic, "title", Null)
          [] k = "learning_objective" -> Get(topic, "objectives", List(<<>>))
          [] k = "created_at" -> Str(FormatDate(now))
          [] k = "due_days" -> Num(DefaultDueDays)
          [] k = "status" -> Str("active")
          [] OTHER -> task_data[k]]

\* lines 652-656 with a missing field filled in instead of the task dropped
ValidateAndFormatTask_Defaulting(task_data, topic, now) ==
    IF task_data.t \in {"null", "num", "bool"} THEN Raise("TypeError", Null)
    ELSE IF task_data.t = "str" THEN Ok(Null)
    ELSE IF task_data.t = "list" THEN Ok(Null)
    ELSE Ok(Obj(ValidatedTask(
            [k \in DOMAIN task_data.v \cup RequiredFields |->
                IF k \in DOMAIN task_data.v THEN task_data.v[k] ELSE Str("medium")],
            topic, now)))

\* _validate_and_format_task(task_data, topic): None (Null) for a task that
\* lacks a required field.  `field in task_data` is a key test on a dict, a
\* membership test on a list, a substring test on a str (no str of the model
\* holds the four words) and a TypeError on None, a number or a bool; update
\* on a list raises AttributeError
ValidateAndFormatTask(task_data, topic, now) ==
    IF task_data.t \in {"null", "num", "bool"} THEN Raise("TypeError", Null)
    ELSE IF task_data.t = "str" THEN Ok(Null)
    ELSE IF task_data.t = "list"
    THEN IF \A f \in RequiredFields : \E i \in 1..Len(task_data.v) : task_data.v[i] = Str(f)
         THEN Raise("AttributeError", Null) ELSE Ok(Null)
    ELSE IF ~(RequiredFields \subseteq DOMAIN task_data.v) THEN Ok(Null)
    ELSE Ok(Obj(ValidatedTask(task_data.v, topic, now)))

\* ', '.join(x) raises TypeError unless x is a list (or other iterable) of strs
JoinRaises(x) ==
    \/ x.t \in {"null", "num", "bool"}
    \/ x.t = "list" /\ \E i \in 1..Len(x.v) : x.v[i].t # "str"

\* _create_task_generation_prompt raises: the joins of lines 574 and 579-580
PromptRaises(topic, path_data) ==
    \/ JoinRaises(Get(topic, "objectives", List(<<>>)))
    \/ JoinRaises(Get(path_data, "strengths", List(<<>>)))
    \/ JoinRaises(Get(path_data, "weaknesses", List(<<>>)))

\* the comprehension of lines 400-404 over the items of generated['tasks']:
\* the validated tasks in order, or the first exception
RECURSIVE ValidateAll(_, _, _)
ValidateAll(items, topic, now) ==
    IF items = <<>> THEN Ok(<<>>)
    ELSE LET first == ValidateAndFormatTask(Head(items), topic, now) IN
         IF ~first.ok THEN first
         ELSE LET rest == ValidateAll(Tail(items), topic, now) IN
              IF ~rest.ok THEN rest
              ELSE IF first.val = Null THEN rest
              ELSE Ok(<<first.val>> \o rest.val)

\* _generate_topic_tasks(topic, student_info) on one outcome of the LLM
\* exchange: [tasks, called]; _call_llm_api of this class re-raises, and
\* every exception of the body gives []
GenerateTopicTasks(topic, path_data, outcome, now) ==
    IF PromptRaises(topic, path_data) THEN [tasks |-> <<>>, called |-> FALSE]
    ELSE IF outcome.kind # "json" THEN [tasks |-> <<>>, called |-> TRUE]
    ELSE LET generated == outcome.body IN
         IF \/ Falsy(generated)
            \/ generated.t # "obj"
            \/ "tasks" \notin DOMAIN generated.v
            \/ IterRaises(generated.v["tasks"])
         THEN [tasks |-> <<>>, called |-> TRUE]
         ELSE LET all == ValidateAll(ItemsOf(generated.v["tasks"]), topic, now) IN
              [tasks |-> IF all.ok THEN all.val ELSE <<>>, called |-> TRUE]

\* lines 360-378 for the topics from position i on; acc holds tasks, the
\* positions called and the per-topic contributions so far.  A topic that is
\* no dict raises at topic.get (line 361) and ends the loop
RECURSIVE TopicLoop(_, _, _, _, _, _, _)
TopicLoop(topics, i, path_data, outcomes, settings, now, acc) ==
    IF i > Len(topics) THEN [acc EXCEPT !.raised = FALSE]
    ELSE IF topics[i].t # "obj" THEN [acc EXCEPT !.raised = TRUE]
    ELSE LET got == GenerateTopicTasks(topics[i].v, path_data, outcomes[i], now)
             mine == IF got.tasks # <<>> THEN got.tasks
                     ELSE GenerateFallbackTopicTasks(topics[i].v, settings, now)
         IN  TopicLoop(topics, i + 1, path_data, outcomes, settings, now,
                 [tasks |-> acc.tasks \o mine,
                  calls |-> IF got.called THEN Append(acc.calls, i) ELSE acc.calls,
                  contrib |-> Append(acc.contrib, mine),
                  raised |-> FALSE])

\* generate_tasks_from_learning_path(learning_path): [tasks, calls, contrib]
GenerateTasksFromLearningPath(path_data, outcomes, settings, now) ==
    LET generic == [tasks |-> GenerateFallbackTasks(settings, now),
                    calls |-> <<>>, contrib |-> <<>>]
    IN
    IF Falsy(path_data) THEN generic
    ELSE IF path_data.t # "obj" THEN generic
    ELSE LET topics == Get(path_data.v, "topics", List(<<>>)) IN
         IF Falsy(topics) THEN generic
         ELSE IF IterRaises(topics) THEN generic
         ELSE LET done == TopicLoop(ItemsOf(topics), 1, path_data.v, outcomes,
                                    settings, now,
                                    [tasks |-> <<>>, calls |-> <<>>,
                                     contrib |-> <<>>, raised |-> FALSE])
              IN  IF done.raised \/ done.tasks = <<>>
                  THEN [generic EXCEPT !.calls = done.calls,
                                       !.contrib = done.contrib]
                  ELSE [tasks |-> done.tasks, calls |-> done.calls,
                        contrib |-> done.contrib]

----------------------------------------------------------------------------
(* Requests and LLM completions the path generation is driven with *)

\* request.data.get("user_id"): missing, 0, a user of the table, no user
UserIds == {Null, Num(0), Num(1), Num(2), Num(9)}

\* request.data["responses"]: missing, empty, an entry that is no object, an
\* entry without answer, an answer that is no string, and well-formed lists
ResponseLists ==
    {Absent,
     List(<<>>),
     List(<<Str(Q_Planet)>>),
     List(<<Obj([question |-> Str(Q_Equation)])>>),
     List(<<Obj([question |-> Str(Q_Planet), answer |-> Num(1)])>>),
     List(<<Entry(Q_Equation, A_Correct)>>),
     List(<<Entry(Q_Story, A_wrong), Entry(Q_BiologyText, A_correct),
            Entry(Q_Planet, A_wrong)>>)}

\* the HTTP exchange fails (requests.post, raise_for_status), or its body
\* or completion text does not decode, or the completion decodes to body
Transport == [kind |-> "transport", body |-> EmptyMap]
NonJson == [kind |-> "nonjson", body |-> EmptyMap]
Completion(body) == [kind |-> "json", body |-> body]

AnalysisBody ==
    [strengths |-> List(<<Str("Math")>>),
     weaknesses |-> List(<<Str("Reading")>>),
     knowledge_gaps |-> List(<<Str("Fractions")>>),
     recommended_topics |-> List(<<Str("Topic of the analysis")>>)]

AnalysisOutcomes == {Transport, NonJson, Completion(AnalysisBody)}

\* a learning path with every key the repair looks at, a skill roadmap and
\* mentor guidance, one entry of it being what the guidance of
\* FullRoadmapBody becomes in the merge
FullPathBody ==
    [difficulty_levels |-> Obj([s \in SubjectSet |-> Str("Intermediate")]),
     estimated_completion_time |->
         Obj([weeks |-> Num(6), estimated_completion_date |-> Str("2030-01-01")]),
     study_plan |-> List(<<WeekEntry>>),
     recommended_topics |-> List(<<Str("Fractions")>>),
     weaknesses |-> List(<<Str("Reading")>>),
     skill_roadmap |-> Obj([foundational_skills |-> List(<<Str("Counting")>>)]),
     mentor_guidance |->
         List(<<Obj([topic |-> Str("Habits")]),
                Obj([topic |-> Str("Fractions"),
                     advice |-> Str("Use number lines"),
                     common_pitfalls |-> List(<<>>),
                     success_strategies |-> List(<<>>)])>>)]

PathBodies ==
    {EmptyMap,
     FullPathBody,
     \* a completion-time object whose date is the empty string
     [estimated_completion_time |->
         Obj([weeks |-> Num(6), estimated_completion_date |-> Str("")])],
     \* a completion time that is no object
     [estimated_completion_time |-> Str("4 weeks")]}

PathOutcomes == {Transport, NonJson} \cup {Completion(b) : b \in PathBodies}

FullRoadmapBody ==
    [long_term_vision |-> Obj([career_paths |-> List(<<Str("Engineer")>>)]),
     mastery_progression |->
         List(<<Obj([phase |-> Str("beginner"),
                     focus_areas |-> List(<<Str("Counting"), Str("Place value")>>)]),
                Obj([phase |-> Str("expert"),
                     focus_areas |-> List(<<Str("Proofs")>>)])>>),
     development_timeline |-> Obj([short_term_goals |-> List(<<Str("Drill")>>)]),
     expert_guidance |->
         List(<<Obj([topic |-> Str("Fractions"),
                     expert_insights |-> Str("Use number lines")])>>)]

RoadmapBodies ==
    {EmptyMap,
     FullRoadmapBody,
     \* a phase without a name
     [mastery_progression |->
         List(<<Obj([focus_areas |-> List(<<Str("Counting")>>)])>>)],
     \* guidance without a topic
     [expert_guidance |->
         List(<<Obj([expert_insights |-> Str("Use number lines")])>>)]}

RoadmapOutcomes == {Transport, NonJson} \cup {Completion(b) : b \in RoadmapBodies}

\* the iteration orders set() can give two strings
HashOrders == {<<1, 2>>, <<2, 1>>}

----------------------------------------------------------------------------
(* Learning paths and LLM completions the task strategy is driven with *)

MaxTopics == 2

TopicFractions ==
    Obj([title |-> Str("Fractions"), difficulty |-> Str("Advanced"),
         objectives |-> List(<<Str("Add fractions")>>)])
TopicCells == Obj([title |-> Str("Cells")])
\* objectives that cannot be joined: the prompt raises
TopicLoops ==
    Obj([title |-> Str("Loops"), difficulty |-> Str("easy"), objectives |-> Num(5)])

\* topics of a stored path: dicts, and an entry that is a bare string
TopicChoices == {TopicFractions, TopicCells, TopicLoops, Str("Algebra")}

TopicLists == UNION {[1..n -> TopicChoices] : n \in 1..MaxTopics}

\* path_data of the LearningPath row handed in
TaskPathData ==
    {Null, Obj(EmptyMap), Obj([student_grade |-> Str("5")]),
     Obj([topics |-> List(<<>>)])}
    \cup {Obj([topics |-> List(ts), student_grade |-> Str("5")]) : ts \in TopicLists}

QuizFromLLM ==
    Obj([title |-> Str("Fraction quiz"), task_type |-> Str("quiz"),
         difficulty |-> Str("Advanced"),
         content |-> Obj([questions |-> List(<<Str("1/2 + 1/4 = ?")>>)])])
AssignmentFromLLM ==
    Obj([title |-> Str("Fraction worksheet"), task_type |-> Str("assignment"),
         difficulty |-> Str("medium"),
         content |-> Obj([instructions |-> Str("Solve all")])])
\* a task object without content
TaskWithoutContent ==
    Obj([title |-> Str("Fraction game"), task_type |-> Str("interactive"),
         difficulty |-> Str("easy")])

\* what the exchange of one topic gives: an exception, or a decoded completion
TaskOutcomes ==
    {Transport, NonJson,
     Completion(Obj([note |-> Str("no tasks")])),
     Completion(Obj([tasks |-> List(<<>>)])),
     Completion(Obj([tasks |-> List(<<TaskWithoutContent>>)])),
     Completion(Obj([tasks |-> List(<<QuizFromLLM, TaskWithoutContent,
                                      AssignmentFromLLM>>)])),
     Completion(Obj([tasks |-> List(<<QuizFromLLM, Num(3)>>)]))}

\* settings.TASK_GENERATION with and without a task-type distribution
LLMTaskSettings ==
    {EmptyMap,
     [TASK_TYPE_DISTRIBUTION |->
         List(<<Str("quiz"), Str("assignment"), Str("interactive")>>)]}

\* the topics of a path_data that has a non-empty list of them, else <<>>
TopicsOf(path_data) ==
    IF path_data.t = "obj" /\ "topics" \in DOMAIN path_data.v
       /\ path_data.v["topics"].t = "list"
    THEN path_data.v["topics"].v ELSE <<>>

\* LLMTaskGenerator.__init__ (lines 334-342) with the key check left out
LLMTaskGeneratorInit_NoKeyCheck(key) == "constructed"

\* LLMTaskGenerator.__init__ (lines 334-342) on the configured key (no
\* api_key argument): ValueError when it is empty
LLMTaskGeneratorInit(key) ==
    IF key = "" THEN "ValueError" ELSE "constructed"

LLMTasksIdle ==
    /\ lt_generator = "none"
    /\ lt_path_data = Null
    /\ lt_outcomes = <<>>
    /\ lt_settings = EmptyMap
    /\ lt_done = FALSE
    /\ lt_tasks = <<>>
    /\ lt_calls = <<>>
    /\ lt_contrib = <<>>

\* generate_tasks_from_learning_path(learning_path) runs to its return
CallGenerateTasksFromLearningPath ==
    LET got == GenerateTasksFromLearningPath(lt_path_data, lt_outcomes,
                                             lt_settings, clock)
    IN  /\ lt_generator = "constructed"
        /\ ~lt_done
        /\ lt_done' = TRUE
        /\ lt_tasks' = got.tasks
        /\ lt_calls' = got.calls
        /\ lt_contrib' = got.contrib
        /\ UNCHANGED <<lt_generator, lt_path_data, lt_outcomes, lt_settings,
                       notLLMTaskVars>>

\* LLMTaskGenerator() is constructed
ConstructLLMTaskGenerator ==
    /\ lt_generator = "none"
    /\ lt_generator' = LLMTaskGeneratorInit(api_key)
    /\ UNCHANGED <<lt_path_data, lt_outcomes, lt_settings, lt_done, lt_tasks,
                   lt_calls, lt_contrib, notLLMTaskVars>>

----------------------------------------------------------------------------
(* Task creation: create_tasks_for_learning_path (tasks/views.py 99-203),   *)
(* TaskSerializer (tasks/serializers.py) and the Task model                 *)

\* CharField(max_length=200) of Task.title and Task.learning_objective
MaxCharLen == 200

\* a CharField of the serializer accepts the value: a non-blank str of at
\* most max_length characters
CharFieldValid(d, k) ==
    /\ k \in DOMAIN d
    /\ d[k].t = "str"
    /\ d[k].v # ""
    /\ Len(d[k].v) <= MaxCharLen

\* the field validation a ModelSerializer derives from the Task model
FieldsValid(d) ==
    /\ CharFieldValid(d, "title")
    /\ CharFieldValid(d, "learning_objective")
    /\ "task_type" \in DOMAIN d
    /\ d["task_type"] \in {Str("quiz"), Str("assignment"), Str("interactive")}
    /\ "difficulty" \in DOMAIN d
    /\ d["difficulty"] \in {Str("easy"), Str("medium"), Str("hard")}
    /\ "content" \in DOMAIN d

\* TaskSerializer.validate(data) returns (raises no ValidationError)
SerializerValidate(d) ==
    LET content == Get(d, "content", Obj(EmptyMap)) IN
    /\ Get(d, "task_type", Null) \in {Str("quiz"), Str("assignment"), Str("interactive")}
    /\ Get(d, "difficulty", Null) \in {Str("easy"), Str("medium"), Str("hard")}
    /\ content.t = "obj"
    /\ d["task_type"] = Str("quiz") => "questions" \in DOMAIN content.v
    /\ d["task_type"] = Str("assignment") => "instructions" \in DOMAIN content.v
    /\ d["task_type"] = Str("interactive") => "activity_type" \in DOMAIN content.v

\* task_serializer.is_valid()
IsValid(d) == FieldsValid(d) /\ SerializerValidate(d)

\* the rows of the LearningPath and user tables the handler can find
StoredPathIds == {1}

\* lines 121-124: the topics looped over
TopicsLoopedOver(path_data) ==
    LET topics == Get(path_data, "topics", List(<<>>)) IN
    IF Falsy(topics)
    THEN List(<<Obj([title |-> Str("General Learning"),
                     difficulty |-> Str("medium")])>>)
    ELSE topics

\* lines 127-137 for one topic: generate_tasks on the topic's title and
\* difficulty; _normalize_difficulty looks a str up and gives medium for
\* any other hashable value
TasksForTopic(topic, path_data, settings, now) ==
    LET title == Get(topic, "title", Str("General Learning"))
        difficulty == Get(topic, "difficulty", Str("medium"))
        grade == Get(path_data, "student_grade", Str("intermediate"))
        tasks == GenerateTasks(PyStr(title),
                               IF difficulty.t = "str" THEN difficulty.v ELSE "",
                               PyStr(grade), settings, now)
    IN  [i \in 1..Len(tasks) |-> [tasks[i] EXCEPT !.learning_objective = title]]

\* lines 126-137: all_tasks, or the exception of a topic that is no dict
\* (topic.get) or of a difficulty that is unhashable (dict lookup)
RECURSIVE AllTasks(_, _, _, _)
AllTasks(topics, path_data, settings, now) ==
    IF topics = <<>> THEN Ok(<<>>)
    ELSE IF Head(topics).t # "obj" THEN Raise("AttributeError", <<>>)
    ELSE IF Unhashable(Get(Head(topics).v, "difficulty", Str("medium")))
    THEN Raise("TypeError", <<>>)
    ELSE LET rest == AllTasks(Tail(topics), path_data, settings, now) IN
         IF ~rest.ok THEN rest
         ELSE Ok(TasksForTopic(Head(topics).v, path_data, settings, now) \o rest.val)

\* lines 113-137: all_tasks, or the exception raised on the way
GenerateForRequest(path_data, settings, now) ==
    IF path_data.t # "obj" THEN Raise("AttributeError", <<>>)
    ELSE IF IterRaises(TopicsLoopedOver(path_data.v)) THEN Raise("TypeError", <<>>)
    ELSE AllTasks(ItemsOf(TopicsLoopedOver(path_data.v)), path_data.v, settings, now)

\* one request ends with a response
EndRequest(status, error) ==
    /\ ct_pc' = "Done"
    /\ ct_response' = HttpResponse(status, error)

\* the handler up to the write loop: lines 101-147.  get_object_or_404
\* raises Http404 inside the try block, where `except Exception` (line 198)
\* turns it into the 500 response
CreateRequest(learning_path_id, student_id) ==
    LET got == GenerateForRequest(ct_path_data, ct_settings, clock) IN
    /\ ct_pc = "Idle"
    /\ ct_request' = [learning_path_id |-> learning_path_id,
                      student_id |-> student_id]
    /\ IF Falsy(learning_path_id) \/ Falsy(student_id)
       THEN /\ EndRequest(400, "Both learning_path_id and student_id are required")
            /\ UNCHANGED <<ct_all_tasks, ct_next>>
       ELSE IF \/ learning_path_id.v \notin StoredPathIds
               \/ student_id.v \notin Users
               \/ ~got.ok
       THEN /\ EndRequest(500, "Failed to process request")
            /\ UNCHANGED <<ct_all_tasks, ct_next>>
       ELSE IF got.val = <<>>
       THEN /\ EndRequest(500, "Failed to generate tasks")
            /\ UNCHANGED <<ct_all_tasks, ct_next>>
       ELSE /\ ct_pc' = "Persisting"
            /\ ct_all_tasks' = got.val
            /\ ct_next' = 1
            /\ UNCHANGED ct_response
    /\ UNCHANGED <<ct_path_data, ct_settings, ct_created, ct_errors, ct_tasks,
                   ct_student_tasks, notCreateVars>>

\* timedelta(days=due_days) raises TypeError unless due_days is a number
DueDateRaises(settings) == DueDays(settings).t \notin {"num", "bool"}

\* task_serializer.save(): the Task row of the serializer's fields
TaskRow(id, d) ==
    [id |-> id, title |-> d["title"], task_type |-> d["task_type"],
     learning_objective |-> d["learning_objective"],
     difficulty |-> d["difficulty"], content |-> d["content"],
     status |-> Str("active")]

\* StudentTask.objects.create(...), lines 166-171
StudentTaskRow(id, student, task, path, due_date) ==
    [id |-> id, student |-> student, task |-> task,
     learning_path |-> path, status |-> "pending", due_date |-> due_date]

\* one pass of the loop of lines 150-182: the task is written with its
\* StudentTask row, or recorded in validation_errors and skipped
PersistNext ==
    LET d == ct_all_tasks[ct_next] IN
    /\ ct_pc = "Persisting"
    /\ ct_next <= Len(ct_all_tasks)
    /\ ct_next' = ct_next + 1
    /\ IF ~DueDateRaises(ct_settings) /\ IsValid(d)
       THEN /\ ct_tasks' = Append(ct_tasks, TaskRow(Len(ct_tasks) + 1, d))
            /\ ct_student_tasks' = Append(ct_student_tasks,
                   StudentTaskRow(Len(ct_student_tasks) + 1,
                                  ct_request.student_id.v, Len(ct_tasks) + 1,
                                  ct_request.learning_path_id.v,
                                  clock + DueDays(ct_settings).v))
            /\ ct_created' = ct_created + 1
            /\ UNCHANGED ct_errors
       ELSE /\ ct_errors' = ct_errors + 1
            /\ UNCHANGED <<ct_tasks, ct_student_tasks, ct_created>>
    /\ UNCHANGED <<ct_path_data, ct_settings, ct_request, ct_pc, ct_all_tasks,
                   ct_response, notCreateVars>>

\* lines 184-196: the response after the loop
Respond ==
    /\ ct_pc = "Persisting"
    /\ ct_next > Len(ct_all_tasks)
    /\ IF ct_created = 0
       THEN EndRequest(500, "Failed to create tasks")
       ELSE EndRequest(201, "Successfully created tasks")
    /\ UNCHANGED <<ct_path_data, ct_settings, ct_request, ct_all_tasks, ct_next,
                   ct_created, ct_errors, ct_tasks, ct_student_tasks,
                   notCreateVars>>

RECURSIVE Repeat(_, _)
Repeat(text, n) == IF n = 0 THEN "" ELSE text \o Repeat(text, n - 1)

\* a title of 190 characters: with " - Quiz" within max_length, with
\* " - Assignment" beyond it
LongTitle == Repeat("abcdefghij", 19)

\* path_data of the stored row: no topics, one topic, a topic with a blank
\* title next to a good one, a long title, a null title, a topic that is no
\* dict, and path_data null
CreatePathData ==
    {Obj(EmptyMap),
     Obj([topics |-> List(<<TopicFractions>>)]),
     Obj([topics |-> List(<<TopicFractions, Obj([title |-> Str("")])>>)]),
     Obj([topics |-> List(<<Obj([title |-> Str(LongTitle)])>>)]),
     Obj([topics |-> List(<<Obj([title |-> Null]), TopicCells>>)]),
     Obj([topics |-> List(<<TopicCells, Str("Algebra")>>)]),
     Null}

\* settings.TASK_GENERATION: no due-day offset, one, and one that is no number
CreateSettings ==
    {EmptyMap, [DEFAULT_DUE_DAYS |-> Num(14)], [DEFAULT_DUE_DAYS |-> Str("7")]}

LearningPathIds == {Null, Num(1), Num(7)}
StudentIds == {Null, Num(1), Num(2), Num(9)}

NoRequest == [learning_path_id |-> Null, student_id |-> Null]

CreateIdle ==
    /\ ct_path_data = Null
    /\ ct_settings = EmptyMap
    /\ ct_request = NoRequest
    /\ ct_pc = "Off"
    /\ ct_all_tasks = <<>>
    /\ ct_next = 0
    /\ ct_created = 0
    /\ ct_errors = 0
    /\ ct_tasks = <<>>
    /\ ct_student_tasks = <<>>
    /\ ct_response = NoResponse

----------------------------------------------------------------------------
(* Specifications *)

\* no request has arrived
PathIdle ==
    /\ pc = [r \in Reqs |-> "Idle"]
    /\ request = [r \in Reqs |-> NoPathRequest]
    /\ questions = [r \in Reqs |-> <<>>]
    /\ student_info = [r \in Reqs |-> Null]
    /\ subject_scores = [r \in Reqs |-> InitializeScores]
    /\ analysis = [r \in Reqs |-> EmptyMap]
    /\ learning_path = [r \in Reqs |-> EmptyMap]
    /\ llm_calls = [r \in Reqs |-> <<>>]
    /\ llm_failed = [r \in Reqs |-> {}]
    /\ llm_answers = [r \in Reqs |-> <<>>]
    /\ response = [r \in Reqs |-> NoResponse]
    /\ db = <<>>

RepairIdle ==
    /\ rep_kind = "off"
    /\ rep_in = EmptyMap
    /\ rep_now = 0
    /\ rep_once = NotRun
    /\ rep_twice = NotRun

InitRepair ==
    /\ rep_kind \in {"path", "roadmap"}
    /\ rep_in \in (IF rep_kind = "path" THEN PathInputs ELSE RoadmapInputs)
    /\ rep_now \in 0..MaxNow
    /\ rep_once = NotRun
    /\ rep_twice = NotRun
    /\ MetricsIdle
    /\ TasksIdle
    /\ api_key = "" /\ clock = 0 /\ PathIdle
    /\ LLMTasksIdle
    /\ CreateIdle

\* learning_path = self._ensure_valid_structure(learning_path)  /
\* expert_roadmap = self._validate_expert_roadmap(expert_roadmap)
RepairOnce ==
    /\ rep_once = NotRun
    /\ rep_once' = Repair(rep_kind, rep_in, rep_now)
    /\ UNCHANGED <<rep_kind, rep_in, rep_now, rep_twice, notRepairVars>>

\* the repair applied again to the document it returned, the clock unchanged
RepairAgain ==
    /\ rep_once.ok
    /\ rep_twice = NotRun
    /\ rep_twice' = Repair(rep_kind, rep_once.val, rep_now)
    /\ UNCHANGED <<rep_kind, rep_in, rep_now, rep_once, notRepairVars>>

NextRepair == RepairOnce \/ RepairAgain

SpecRepair == InitRepair /\ [][NextRepair]_vars

\* a generator constructed on a list of questions (lines 50, 62), or a
\* percentage handed to the tier assignment
InitMetrics ==
    /\ RepairIdle
    /\ TasksIdle
    /\ gen_mode \in {"metrics", "tier"}
    /\ gen_questions \in (IF gen_mode = "metrics" THEN QuestionLists ELSE {<<>>})
    /\ gen_subject_scores = InitializeScores
    /\ gen_metrics = NoMetrics
    /\ gen_difficulty_mapping = NoMapping
    /\ gen_calls = 0
    /\ tier_pct \in (IF gen_mode = "tier" THEN 0..MaxPct10 ELSE {0})
    /\ tier_out = DifficultyTier(tier_pct)
    /\ api_key = "" /\ clock = 0 /\ PathIdle
    /\ LLMTasksIdle
    /\ CreateIdle

NextMetrics ==
    \/ CreateAnalysisPrompt
    \/ AnalyzeDifficultyProgression
    \/ RaisePercentage

SpecMetrics == InitMetrics /\ [][NextMetrics]_vars

InitTasks ==
    /\ RepairIdle
    /\ MetricsIdle
    /\ tg_objective \in Objectives
    /\ tg_difficulty \in Difficulties
    /\ tg_grade \in Grades
    /\ tg_settings \in TaskSettings
    /\ tg_now \in 0..MaxNow
    /\ tg_normalized = ""
    /\ tg_tasks = NotGenerated
    /\ api_key = "" /\ clock = 0 /\ PathIdle
    /\ LLMTasksIdle
    /\ CreateIdle

NextTasks == CallGenerateTasks

SpecTasks == InitTasks /\ [][NextTasks]_vars

\* the service started, the key configured or not, the table empty
Init ==
    /\ RepairIdle
    /\ MetricsIdle
    /\ TasksIdle
    /\ api_key \in {"", "gsk-key"}
    /\ clock = 0
    /\ PathIdle
    /\ LLMTasksIdle
    /\ CreateIdle

Post == \E r \in Reqs, u \in UserIds, rs \in ResponseLists : PostRequest(r, u, rs)
AnalysisReturn == \E r \in Reqs, o \in AnalysisOutcomes : AnalysisReturns(r, o)
PathReturn == \E r \in Reqs, o \in PathOutcomes : PathReturns(r, o)
RoadmapReturn ==
    \E r \in Reqs, o \in RoadmapOutcomes, ord \in HashOrders :
        RoadmapReturns(r, o, ord)

Next == Post \/ AnalysisReturn \/ PathReturn \/ RoadmapReturn

Spec == Init /\ [][Next]_vars

\* a generator and a stored learning path, and for each topic what its LLM
\* exchange will give
InitLLMTasks ==
    /\ RepairIdle
    /\ MetricsIdle
    /\ TasksIdle
    /\ api_key = "gsk-key" /\ clock = 0 /\ PathIdle
    /\ lt_generator = "constructed"
    /\ lt_path_data \in TaskPathData
    /\ lt_outcomes \in [1..Len(TopicsOf(lt_path_data)) -> TaskOutcomes]
    /\ lt_settings \in LLMTaskSettings
    /\ lt_done = FALSE
    /\ lt_tasks = <<>>
    /\ lt_calls = <<>>
    /\ lt_contrib = <<>>
    /\ CreateIdle

NextLLMTasks == CallGenerateTasksFromLearningPath

SpecLLMTasks == InitLLMTasks /\ [][NextLLMTasks]_vars

\* the service started with the key configured or not: one path-generation
\* request and one LLMTaskGenerator on a stored path without topics
InitConfig ==
    /\ RepairIdle
    /\ MetricsIdle
    /\ TasksIdle
    /\ api_key \in {"", "gsk-key"}
    /\ clock = 0
    /\ PathIdle
    /\ lt_generator = "none"
    /\ lt_path_data \in {Null, Obj([topics |-> List(<<>>)])}
    /\ lt_outcomes = <<>>
    /\ lt_settings \in LLMTaskSettings
    /\ lt_done = FALSE
    /\ lt_tasks = <<>>
    /\ lt_calls = <<>>
    /\ lt_contrib = <<>>
    /\ CreateIdle

PostOne == \E u \in UserIds, rs \in ResponseLists : PostRequest("r1", u, rs)
AnalysisReturnOne == \E o \in AnalysisOutcomes : AnalysisReturns("r1", o)
PathReturnOne == \E o \in PathOutcomes : PathReturns("r1", o)
RoadmapReturnOne ==
    \E o \in RoadmapOutcomes, ord \in HashOrders : RoadmapReturns("r1", o, ord)

NextConfig ==
    \/ PostOne
    \/ AnalysisReturnOne
    \/ PathReturnOne
    \/ RoadmapReturnOne
    \/ ConstructLLMTaskGenerator
    \/ CallGenerateTasksFromLearningPath

SpecConfig == InitConfig /\ [][NextConfig]_vars

\* a stored learning path, the settings, empty task tables and no request yet
InitCreate ==
    /\ RepairIdle
    /\ MetricsIdle
    /\ TasksIdle
    /\ api_key = "" /\ clock = 0 /\ PathIdle
    /\ LLMTasksIdle
    /\ ct_path_data \in CreatePathData
    /\ ct_settings \in CreateSettings
    /\ ct_request = NoRequest
    /\ ct_pc = "Idle"
    /\ ct_all_tasks = <<>>
    /\ ct_next = 0
    /\ ct_created = 0
    /\ ct_errors = 0
    /\ ct_tasks = <<>>
    /\ ct_student_tasks = <<>>
    /\ ct_response = NoResponse

PostCreate == \E lp \in LearningPathIds, st \in StudentIds : CreateRequest(lp, st)

NextCreate == PostCreate \/ PersistNext \/ Respond

SpecCreate == InitCreate /\ [][NextCreate]_vars

----------------------------------------------------------------------------
(* Claims on schema repair, checked under SpecRepair *)

\* the value b of key k after the repair is the value a before it, or a is the
\* estimated_completion_time object without a date and b is a with the one
\* nested key estimated_completion_date added
NestedDateFill(k, a, b) ==
    /\ k = "estimated_completion_time"
    /\ a.t = "obj" /\ b.t = "obj"
    /\ "estimated_completion_date" \notin DOMAIN a.v
    /\ DOMAIN b.v = (DOMAIN a.v) \cup {"estimated_completion_date"}
    /\ \A j \in DOMAIN a.v : b.v[j] = a.v[j]

\* C3 as stated: repair is additive only: every key of the input is a key of
\* the output, every key supplied with a non-falsy value keeps exactly that
\* value, and only absent or falsy keys are written.
C3_AdditiveOnlyLiteral ==
    rep_once.ok =>
        /\ \A k \in DOMAIN rep_in :
              /\ k \in DOMAIN rep_once.val
              /\ ~Falsy(rep_in[k]) => rep_once.val[k] = rep_in[k]
        /\ \A k \in DOMAIN rep_once.val :
              (k \notin DOMAIN rep_in \/ rep_once.val[k] # rep_in[k])
                  => (k \notin DOMAIN rep_in \/ Falsy(rep_in[k]))

\* C3 amended: repair is additive only at every level it touches: every key
\* of the input is a key of the output; a top-level key supplied with a
\* non-falsy value keeps exactly that value, except that an
\* estimated_completion_time object lacking estimated_completion_date keeps
\* all its own keys and values and gains that one nested key; nothing else
\* is written but absent or falsy top-level keys.
C3_AdditiveOnly ==
    rep_once.ok =>
        /\ \A k \in DOMAIN rep_in :
              /\ k \in DOMAIN rep_once.val
              /\ \/ rep_once.val[k] = rep_in[k]
                 \/ Falsy(rep_in[k])
                 \/ NestedDateFill(k, rep_in[k], rep_once.val[k])
        /\ \A k \in DOMAIN rep_once.val :
              k \notin DOMAIN rep_in =>
                  k \in {"difficulty_levels", "estimated_completion_time",
                         "study_plan", "recommended_topics", "long_term_vision",
                         "mastery_progression", "development_timeline"}

\* C3 witness: a learning path with a supplied non-falsy key, a date-less
\* completion-time object and no study plan has been repaired
C3_Witness ==
    /\ rep_kind = "path"
    /\ rep_once.ok
    /\ "strengths" \in DOMAIN rep_in
    /\ "study_plan" \notin DOMAIN rep_in
    /\ "estimated_completion_time" \in DOMAIN rep_in
    /\ rep_in["estimated_completion_time"] = Obj([weeks |-> Num(6)])
    /\ rep_once.val["estimated_completion_time"] # rep_in["estimated_completion_time"]

\* C4: repair is idempotent with the clock fixed: a second application to the
\* repaired document returns, without raising, the same document.
C4_Idempotent ==
    rep_twice # NotRun => rep_twice = rep_once

\* C4 witness: a document the first repair changed has been repaired twice,
\* for each of the two repairs
C4_Witness ==
    /\ rep_twice # NotRun
    /\ rep_once.val # rep_in
    /\ rep_kind = "path"
    /\ "study_plan" \notin DOMAIN rep_in
    /\ "recommended_topics" \notin DOMAIN rep_in

\* C5: repair never fails: whatever JSON object the stage returned, also one
\* with a value of an unexpected type, the repair returns a document.
C5_RepairNeverFails ==
    rep_once # NotRun => rep_once.ok

----------------------------------------------------------------------------
(* Claims on the metrics, checked under SpecMetrics *)

\* the responses of one subject, and the correct ones among them
NumResponses(qs, s) ==
    Cardinality({i \in 1..Len(qs) : qs[i].subject = s})
NumCorrect(qs, s) ==
    Cardinality({i \in 1..Len(qs) : qs[i].subject = s /\ qs[i].correct})

Abs(x) == IF x < 0 THEN -x ELSE x

\* p tenths is 100 * c / t rounded to one decimal: no tenth is nearer
IsRoundedPercentage(p, c, t) == 2 * Abs(1000 * c - p * t) <= t

\* C6: the metrics report, for each of the four subjects, 100 * correct /
\* total of that subject's responses rounded to one decimal, and percentage 0
\* with counts 0/0 for a subject without responses (so for every subject of
\* an empty sequence).
C6_PercentagePerSubject ==
    gen_metrics # NoMetrics =>
        /\ DOMAIN gen_metrics = {"Math", "Reading", "Science", "Language"}
        /\ \A s \in DOMAIN gen_metrics :
              LET t == NumResponses(gen_questions, s)
                  c == NumCorrect(gen_questions, s)
              IN  IF t = 0
                  THEN gen_metrics[s] = [percentage |-> 0, correct |-> 0, total |-> 0]
                  ELSE IsRoundedPercentage(gen_metrics[s].percentage, c, t)

\* C6 witness: metrics computed a second time on responses with 2 of 3 Math
\* answers correct and no Science response
C6_Witness ==
    /\ gen_metrics # NoMetrics
    /\ gen_calls = 2
    /\ NumResponses(gen_questions, "Math") = 3
    /\ gen_metrics["Math"].percentage = 667
    /\ gen_metrics["Science"].total = 0

TierRank(tier) ==
    CASE tier = "Basic" -> 0
      [] tier = "Intermediate" -> 1
      [] tier = "Advanced" -> 2

\* the tier the thresholds give a percentage held in tenths
ThresholdTier(p) ==
    IF p >= 800 THEN "Advanced" ELSE IF p >= 600 THEN "Intermediate" ELSE "Basic"

ScenarioA == Block("Math", 5, 4) \o Block("Reading", 5, 2)

\* C7: a subject is Advanced at 80 percent and above, Intermediate from 60 to
\* below 80, Basic otherwise, exactly at the boundaries (79.9 is not Advanced,
\* 80.0 is); 4 of 5 Math gives 80.0/Advanced and 2 of 5 Reading 40.0/Basic;
\* a higher percentage never gets a lower tier.
C7_TierThresholds ==
    /\ [](/\ tier_out = ThresholdTier(tier_pct)
          /\ tier_pct = 799 => tier_out # "Advanced"
          /\ tier_pct = 800 => tier_out = "Advanced"
          /\ gen_difficulty_mapping # NoMapping =>
                /\ \A s \in DOMAIN gen_metrics :
                      gen_difficulty_mapping[s] = ThresholdTier(gen_metrics[s].percentage)
                /\ gen_questions = ScenarioA =>
                      /\ gen_metrics["Math"].percentage = 800
                      /\ gen_difficulty_mapping["Math"] = "Advanced"
                      /\ gen_metrics["Reading"].percentage = 400
                      /\ gen_difficulty_mapping["Reading"] = "Basic")
    /\ [][tier_pct' >= tier_pct => TierRank(tier_out') >= TierRank(tier_out)]_vars

\* C7 witness: the difficulty mapping computed for scenario A
C7_Witness ==
    /\ gen_questions = ScenarioA
    /\ gen_difficulty_mapping # NoMapping
    /\ gen_difficulty_mapping["Math"] = "Advanced"
    /\ gen_difficulty_mapping["Reading"] = "Basic"

----------------------------------------------------------------------------
(* Claims on the deterministic task strategy, checked under SpecTasks *)

ValidDifficulties == {"easy", "medium", "hard"}

\* the normalization table as documented
TableValue(d) ==
    CASE d \in {"basic", "Basic"} -> "easy"
      [] d \in {"intermediate", "Intermediate"} -> "medium"
      [] d \in {"advanced", "Advanced"} -> "hard"
      [] d \in ValidDifficulties -> d
      [] OTHER -> "medium"

\* str.lower() on the difficulty strings of the model
Lower(d) ==
    IF \E w \in DOMAIN CaseVariants : d \in CaseVariants[w]
    THEN CHOOSE w \in DOMAIN CaseVariants : d \in CaseVariants[w]
    ELSE d

\* C8: generate_tasks returns exactly 3 tasks, one quiz, one assignment and
\* one interactive, each with a difficulty among easy, medium, hard, and
\* medium on all three when the difficulty string is not recognized.
C8_ThreeTasksOneOfEachType ==
    tg_tasks # NotGenerated =>
        /\ Len(tg_tasks) = 3
        /\ \A ty \in {"quiz", "assignment", "interactive"} :
              Cardinality({i \in 1..Len(tg_tasks) : tg_tasks[i].task_type = Str(ty)}) = 1
        /\ \A i \in 1..Len(tg_tasks) :
              /\ tg_tasks[i].difficulty.t = "str"
              /\ tg_tasks[i].difficulty.v \in ValidDifficulties
              /\ Lower(tg_difficulty) \notin DOMAIN CaseVariants
                    => tg_tasks[i].difficulty = Str("medium")

\* C8 witness: the three tasks generated for an unrecognized difficulty
C8_Witness ==
    /\ tg_tasks # NotGenerated
    /\ tg_difficulty = "unknown"
    /\ tg_objective = "Fractions"
    /\ tg_tasks[3].task_type = Str("interactive")

\* C9: normalization is total and follows the table: basic/Basic to easy,
\* intermediate/Intermediate to medium, advanced/Advanced to hard,
\* easy/medium/hard to themselves, every other input to medium; the result
\* is always one of easy, medium, hard.
C9_NormalizationTable ==
    tg_tasks # NotGenerated =>
        /\ tg_normalized \in ValidDifficulties
        /\ tg_normalized = TableValue(tg_difficulty)
        /\ tg_difficulty = "unknown" => tg_normalized = "medium"
        /\ \A i \in 1..Len(tg_tasks) : tg_tasks[i].difficulty = Str(tg_normalized)

\* C9 witness: the input Advanced has been normalized to hard
C9_Witness ==
    /\ tg_tasks # NotGenerated
    /\ tg_difficulty = "Advanced"
    /\ tg_normalized = "hard"

\* C10: normalization is case-insensitive: every letter-case variant of a
\* word of the table maps to what its lower-case form maps to.
C10_CaseInsensitive ==
    tg_tasks # NotGenerated =>
        tg_normalized = TableValue(Lower(tg_difficulty))

----------------------------------------------------------------------------
(* Claims on the path generation request, checked under Spec *)

\* the rows request r wrote
RowsOf(r) == {i \in 1..Len(db) : db[i].req = r}

\* C1: if the LLM call of any stage (analysis, learning path, expert
\* roadmap) fails with a transport error or returns a body or completion
\* text that is not decodable JSON, the request ends Failed with an error
\* response and no LearningPath row is persisted for it: a request with a
\* failed call is never Merged, never answered 201 and never has a row.
C1_LLMFailureEndsFailed ==
    \A r \in Reqs :
        llm_failed[r] # {} =>
            /\ pc[r] # "Merged"
            /\ response[r].status # 201
            /\ RowsOf(r) = {}

\* a str that is not empty
Populated(d, k) == k \in DOMAIN d /\ d[k].t = "str" /\ d[k].v # ""

\* C2: every persisted LearningPath row has path_data with a non-empty
\* recommended_topics list, a study_plan of at least one week entry and an
\* estimated_completion_time holding a present and non-empty
\* estimated_completion_date, whatever objects the three stages returned.
C2_PersistedPathWellFormed ==
    \A i \in 1..Len(db) :
        LET d == db[i].path_data IN
        /\ "recommended_topics" \in DOMAIN d
        /\ d["recommended_topics"].t = "list"
        /\ Len(d["recommended_topics"].v) >= 1
        /\ "study_plan" \in DOMAIN d
        /\ d["study_plan"].t = "list"
        /\ Len(d["study_plan"].v) >= 1
        /\ "estimated_completion_time" \in DOMAIN d
        /\ d["estimated_completion_time"].t = "obj"
        /\ Populated(d["estimated_completion_time"].v, "estimated_completion_date")

----------------------------------------------------------------------------
(* Claims on the LLM task strategy, checked under SpecLLMTasks *)

\* C11: every task emitted by the task synthesizer, by any strategy, has
\* difficulty in {easy, medium, hard}: a difficulty of the
\* Basic/Intermediate/Advanced vocabulary coming from the LLM output or from
\* a topic's difficulty field is normalized, an unrecognized value becomes
\* medium.
C11_EmittedDifficultyNormalized ==
    lt_done =>
        \A i \in 1..Len(lt_tasks) :
            /\ "difficulty" \in DOMAIN lt_tasks[i].v
            /\ lt_tasks[i].v["difficulty"] \in {Str(d) : d \in ValidDifficulties}

\* the three generic fallback tasks: one of each type, medium, no topic
IsGenericFallback(tasks) ==
    /\ Len(tasks) = 3
    /\ \A i \in 1..Len(tasks) :
          /\ tasks[i].v["task_type"] = Str(TaskTypes[i])
          /\ tasks[i].v["difficulty"] = Str("medium")
          /\ "topic" \notin DOMAIN tasks[i].v
          /\ tasks[i].v["title"] = Str("Basic " \o Capitalize(TaskTypes[i]) \o " Task")

\* the path has no topics to loop over: path_data empty, topics absent or empty
NoTopics ==
    \/ Falsy(lt_path_data)
    \/ "topics" \notin DOMAIN lt_path_data.v
    \/ Falsy(lt_path_data.v["topics"])

\* every topic was processed and contributed no task
EveryTopicContributedNothing ==
    /\ ~NoTopics
    /\ Len(lt_contrib) = Len(TopicsOf(lt_path_data))
    /\ \A i \in 1..Len(lt_contrib) : lt_contrib[i] = <<>>

\* C13: on a learning path whose topics list is empty or absent (or whose
\* path_data is empty), and likewise when every topic contributes zero
\* tasks, generate_tasks_from_learning_path returns exactly 3 generic
\* fallback tasks (quiz, assignment, interactive, difficulty medium), none
\* carrying a topic title, and makes no LLM call in the empty-topics case.
C13_GenericFallback ==
    lt_done =>
        /\ NoTopics => IsGenericFallback(lt_tasks) /\ lt_calls = <<>>
        /\ EveryTopicContributedNothing => IsGenericFallback(lt_tasks)

\* C13 witness: the call returned for a path with topics: []
C13_Witness ==
    /\ lt_done
    /\ lt_path_data = Obj([topics |-> List(<<>>)])
    /\ Len(lt_tasks) = 3
    /\ lt_calls = <<>>

\* a task entry that is an object with the four required fields
HasAllFields(entry) == entry.t = "obj" /\ RequiredFields \subseteq DOMAIN entry.v

\* the entries of the tasks list a completion holds, <<>> when it holds none
EntriesOf(outcome) ==
    IF /\ outcome.kind = "json"
       /\ outcome.body.t = "obj"
       /\ "tasks" \in DOMAIN outcome.body.v
       /\ outcome.body.v["tasks"].t = "list"
    THEN outcome.body.v["tasks"].v ELSE <<>>

\* the call failed, or the result has no tasks, or no task passes validation
YieldsNothing(outcome) ==
    \A k \in 1..Len(EntriesOf(outcome)) :
        /\ EntriesOf(outcome)[k].t = "obj"
        /\ ~HasAllFields(EntriesOf(outcome)[k])

RECURSIVE Concat(_)
Concat(seqs) == IF seqs = <<>> THEN <<>> ELSE Head(seqs) \o Concat(Tail(seqs))

\* the tasks are the per-topic templates of the topic: one per configured
\* task type, titled with the topic title
IsTopicTemplate(tasks, topic) ==
    LET types == DistributionKeys(lt_settings)
        title == Get(topic, "title", Str("Unknown Topic"))
    IN  /\ Len(tasks) = Len(types)
        /\ \A k \in 1..Len(tasks) :
              /\ tasks[k].v["task_type"] = types[k]
              /\ tasks[k].v["topic"] = title
              /\ tasks[k].v["title"] =
                     Str(PyStr(title) \o " - " \o Capitalize(types[k].v))

\* the entries with all four fields, in the order returned, with the topic
\* metadata of lines 659-665
KeptOf(outcome, topic) ==
    LET entries == EntriesOf(outcome)
        RECURSIVE Keep(_)
        Keep(k) == IF k > Len(entries) THEN <<>>
                   ELSE IF HasAllFields(entries[k])
                   THEN <<Obj(ValidatedTask(entries[k].v, topic, clock))>> \o Keep(k + 1)
                   ELSE Keep(k + 1)
    IN  Keep(1)

\* every entry of the tasks list is an object
AllObjects(outcome) ==
    \A k \in 1..Len(EntriesOf(outcome)) : EntriesOf(outcome)[k].t = "obj"

\* C14: for each topic independently: if the LLM call fails (transport or
\* parse error), or the result has no tasks key, or no returned task passes
\* validation, the tasks contributed for that topic are exactly the
\* per-topic template tasks (one per configured task type, titled with the
\* topic title); the failure never aborts the request (every topic is
\* processed and the list returned is the concatenation of the
\* contributions) and never changes what other topics contribute.
C14_PerTopicFallback ==
    LET topics == TopicsOf(lt_path_data) IN
    (lt_done /\ \A i \in 1..Len(topics) : topics[i].t = "obj") =>
        /\ Len(lt_contrib) = Len(topics)
        /\ Concat(lt_contrib) # <<>> => lt_tasks = Concat(lt_contrib)
        /\ \A i \in 1..Len(topics) :
              /\ YieldsNothing(lt_outcomes[i]) =>
                    IsTopicTemplate(lt_contrib[i], topics[i].v)
              /\ (\E k \in 1..Len(lt_calls) : lt_calls[k] = i)
                 /\ AllObjects(lt_outcomes[i]) /\ ~YieldsNothing(lt_outcomes[i])
                    => lt_contrib[i] = KeptOf(lt_outcomes[i], topics[i].v)

\* C14 witness: two topics, the call of the first failed and the second
\* returned valid tasks; the first contributed its three templates
C14_Witness ==
    /\ lt_done
    /\ Len(TopicsOf(lt_path_data)) = 2
    /\ lt_outcomes[1] = Transport
    /\ ~YieldsNothing(lt_outcomes[2]) /\ AllObjects(lt_outcomes[2])
    /\ lt_calls = <<1, 2>>
    /\ Len(lt_contrib[1]) = 3
    /\ Len(lt_contrib[2]) = 2

----------------------------------------------------------------------------
(* Claims on task creation, checked under SpecCreate *)

\* task_type, difficulty and content are of the shape a Task requires
ShapeOK(d) ==
    /\ d["task_type"] \in {Str("quiz"), Str("assignment"), Str("interactive")}
    /\ d["difficulty"] \in {Str(x) : x \in ValidDifficulties}
    /\ d["content"].t = "obj"
    /\ d["task_type"] = Str("quiz") => "questions" \in DOMAIN d["content"].v
    /\ d["task_type"] = Str("assignment") => "instructions" \in DOMAIN d["content"].v
    /\ d["task_type"] = Str("interactive") => "activity_type" \in DOMAIN d["content"].v

\* C12: every Task row persisted by the task-creation handler has task_type
\* in {quiz, assignment, interactive}, difficulty in {easy, medium, hard} and
\* content of the shape its type requires; a generated task that fails this
\* check is never written (every row is a generated task that passes it),
\* and every task the deterministic strategy produced passes it.
C12_PersistedTaskShape ==
    /\ \A i \in 1..Len(ct_tasks) :
          /\ ShapeOK(ct_tasks[i])
          /\ \E j \in 1..Len(ct_all_tasks) :
                /\ ShapeOK(ct_all_tasks[j])
                /\ ct_all_tasks[j].title = ct_tasks[i].title
                /\ ct_all_tasks[j].task_type = ct_tasks[i].task_type
                /\ ct_all_tasks[j].content = ct_tasks[i].content
    /\ \A j \in 1..Len(ct_all_tasks) : ShapeOK(ct_all_tasks[j])

\* C12 witness: a request ended 201 with the three tasks of its topic written
C12_Witness ==
    /\ ct_pc = "Done"
    /\ ct_response.status = 201
    /\ Len(ct_tasks) = 3
    /\ Len(ct_all_tasks) = 3

\* C16: task writes are all-or-nothing per request: at the end of a
\* task-creation request either every generated task has been persisted
\* (its Task row together with its StudentTask row) or none has; never a
\* proper non-empty subset, never a Task row without its StudentTask row.
C16_AllOrNothing ==
    ct_pc = "Done" =>
        /\ Len(ct_tasks) \in {0, Len(ct_all_tasks)}
        /\ \A i \in 1..Len(ct_tasks) :
              \E k \in 1..Len(ct_student_tasks) :
                  ct_student_tasks[k].task = ct_tasks[i].id

\* the request named a learning path or a student that does not exist
ReferencesUnknown ==
    /\ ~Falsy(ct_request.learning_path_id)
    /\ ~Falsy(ct_request.student_id)
    /\ \/ ct_request.learning_path_id.v \notin StoredPathIds
       \/ ct_request.student_id.v \notin Users

\* C20: a request that references a nonexistent entity (for task creation:
\* an unknown learning_path_id or an unknown student_id) ends with a
\* not-found error that is distinct from the internal-failure error, and
\* persists nothing.
C20_NotFoundDistinct ==
    (ct_pc = "Done" /\ ReferencesUnknown) =>
        /\ ct_response.status = 404
        /\ ct_tasks = <<>>
        /\ ct_student_tasks = <<>>

----------------------------------------------------------------------------
(* Further claims on the path generation request, checked under Spec *)

\* the three repaired keys and the completion time are in the learning path
RepairedPathAvailable(r) ==
    {"difficulty_levels", "estimated_completion_time", "study_plan",
     "recommended_topics"} \subseteq DOMAIN learning_path[r]

\* in every state: at most one row per request, a row only for a Merged
\* request whose three calls were made, owned by the requesting user, and
\* none for a request answered with an error
C17_RowsInvariant ==
    /\ \A r \in Reqs :
          /\ Cardinality(RowsOf(r)) <= 1
          /\ RowsOf(r) # {} => pc[r] = "Merged" /\ Len(llm_calls[r]) = 3
          /\ response[r].status >= 400 => RowsOf(r) = {}
    /\ \A i \in 1..Len(db) :
          /\ db[i].student \in Users
          /\ Num(db[i].student) = request[db[i].req].user_id

\* in every step: the table is unchanged, or one row is appended by a request
\* that goes from RoadmapRequested to Merged and the rows present stay as
\* they were
C17_RowsStep ==
    \/ db' = db
    \/ /\ Len(db') = Len(db) + 1
       /\ SubSeq(db', 1, Len(db)) = db
       /\ \E r \in Reqs :
             /\ pc[r] = "RoadmapRequested"
             /\ pc'[r] = "Merged"
             /\ db'[Len(db')].req = r

\* C17: a LearningPath row is written only after the request's pipeline has
\* reached Merged (all three stages done and merged); each request writes at
\* most one row, owned by the requesting user id; existing rows of that or
\* any other user are left unchanged (regeneration adds a new row); a
\* request that ends with an error response has written no row.
C17_RowOnlyAfterMerged == [](C17_RowsInvariant) /\ [][C17_RowsStep]_vars

\* C17 witness: the same user asked twice and has two rows, the first as it
\* was written
C17_Witness ==
    /\ Len(db) = 2
    /\ db[1].student = db[2].student
    /\ db[1].req # db[2].req
    /\ \A r \in Reqs : pc[r] = "Merged"

StageOrder == <<"analysis", "learning_path", "expert_roadmap">>

\* in every state the calls issued are a prefix of the stage order, as far
\* as the request has come
C18_CallsInvariant ==
    \A r \in Reqs :
        /\ Len(llm_calls[r]) <= Len(StageOrder)
        /\ llm_calls[r] = SubSeq(StageOrder, 1, Len(llm_calls[r]))
        /\ pc[r] = "AnalyzeRequested" => Len(llm_calls[r]) = 1
        /\ pc[r] = "PathRequested" => Len(llm_calls[r]) = 2
        /\ pc[r] = "RoadmapRequested" =>
              Len(llm_calls[r]) = 3 /\ RepairedPathAvailable(r)

\* in every step a call is issued only as the next stage: the path call in
\* the step that receives the analysis result, the roadmap call in the step
\* that repairs the learning path
C18_CallsStep ==
    \A r \in Reqs :
        llm_calls'[r] # llm_calls[r] =>
            /\ llm_calls'[r] = Append(llm_calls[r], StageOrder[Len(llm_calls[r]) + 1])
            /\ Len(llm_calls[r]) = 0 => pc[r] = "Idle"
            /\ Len(llm_calls[r]) = 1 =>
                  pc[r] = "AnalyzeRequested" /\ pc'[r] = "PathRequested"
            /\ Len(llm_calls[r]) = 2 =>
                  /\ pc[r] = "PathRequested" /\ pc'[r] = "RoadmapRequested"
                  /\ RepairedPathAvailable(r)'

\* C18: within one generation request the stages run strictly in the order
\* analysis, learning path, expert roadmap: each stage's LLM call is issued
\* at most once, the path call only after the analysis result is available,
\* the roadmap call only after the repaired learning path is available, and
\* a call that failed is never re-issued.
C18_StageOrder == [](C18_CallsInvariant) /\ [][C18_CallsStep]_vars

\* C18 witness: a request whose analysis call failed went through the three
\* stages with one call each
C18_Witness ==
    \E r \in Reqs :
        /\ pc[r] = "Merged"
        /\ llm_calls[r] = StageOrder
        /\ "analysis" \in llm_failed[r]

\* the request was received with responses missing, empty or malformed
BadResponses(r) ==
    pc[r] # "Idle" /\ request[r].responses \in {"missing", "empty", "malformed"}

\* C19 as stated: a path-generation request whose responses list is missing
\* or empty, or in which an entry is not an object carrying both question
\* and answer, is rejected with a client error (400) before the core is
\* invoked: no LLM call is made and no LearningPath row is written.
C19_BadResponsesRejected400 ==
    \A r \in Reqs :
        BadResponses(r) =>
            /\ response[r].status = 400
            /\ llm_calls[r] = <<>>
            /\ RowsOf(r) = {}

\* the request names a user that is not in the table, with a non-empty list
UnknownUserFirst(r) ==
    /\ ~Falsy(request[r].user_id)
    /\ request[r].user_id.v \notin Users
    /\ request[r].responses = "malformed"

\* C19 amended: such a request is rejected with a client error before the
\* core is invoked, no LLM call made and no row written: the error is 400,
\* except that a request with a non-empty malformed list and a user_id that
\* names no user is answered 404, the user being looked up before the
\* entries are validated.
C19_BadResponsesRejected ==
    \A r \in Reqs :
        BadResponses(r) =>
            /\ pc[r] = "Failed"
            /\ response[r].status = (IF UnknownUserFirst(r) THEN 404 ELSE 400)
            /\ llm_calls[r] = <<>>
            /\ RowsOf(r) = {}

\* C19 witness: a known user sent an entry without an answer and got 400
C19_Witness ==
    \E r \in Reqs :
        /\ request[r].responses = "malformed"
        /\ request[r].user_id \in {Num(u) : u \in Users}
        /\ response[r].status = 400
        /\ pc[r] = "Failed"

----------------------------------------------------------------------------
(* Missing credentials *)

\* the request passed every check of post that precedes the generator
ReachesGenerator(r) ==
    /\ request[r].user_id.t = "num" /\ request[r].user_id.v \in Users
    /\ request[r].responses = "well formed"

\* C21: when no LLM API key is configured no generator is constructed: a
\* path-generation request never gets beyond its checks, it has issued no
\* LLM call, it ends with an error response and no LearningPath row is
\* written; the constructor of LLMTaskGenerator raises and no task is
\* generated through it
C21_NoKeyNoGenerator ==
    api_key = "" =>
        /\ \A r \in Reqs :
              /\ pc[r] \in {"Idle", "Failed"}
              /\ llm_calls[r] = <<>>
              /\ pc[r] = "Failed" => response[r].status >= 400
        /\ db = <<>>
        /\ lt_generator \in {"none", "ValueError"}
        /\ ~lt_done /\ lt_calls = <<>>

\* a request that is well formed in every respect is turned away for the
\* key alone, and the task generator's constructor has raised
C21_Witness ==
    /\ api_key = ""
    /\ ReachesGenerator("r1")
    /\ pc["r1"] = "Failed"
    /\ response["r1"] = HttpResponse(400, "Groq API key must be provided")
    /\ lt_generator = "ValueError"

----------------------------------------------------------------------------
(* Concurrent requests *)

\* generate_learning_path (lines 473-500) run to its end on the dicts its
\* three calls return
GenerateLearningPath(info, answers, ord, now) ==
    LET path == EnsureValidStructure(answers[2], now) IN
    IF ~path.ok THEN path
    ELSE LET roadmap == ValidateExpertRoadmap(answers[3])
             merged == MergeLearningPathAndRoadmap(path.val, roadmap.val, ord)
         IN  IF ~merged.ok THEN merged
             ELSE Ok(AddStudentInfoAndAnalysis(merged.val, info, answers[1]))

\* post (lines 571-628) run alone from the request to its response: the
\* response, and the student and document of the row it writes
PostAlone(user_id, responses_in, key, answers, ord, now) ==
    LET responses == IF responses_in = Absent THEN List(<<>>) ELSE responses_in
        rejection == PostRejection(user_id, responses, key)
    IN  IF rejection # NoResponse
        THEN [response |-> rejection, written |-> {}]
        ELSE LET info == Obj([user_id |-> user_id,
                              username |-> Str(Username(user_id.v))])
                 plan == GenerateLearningPath(info, answers, ord, now)
             IN  IF ~plan.ok
                 THEN [response |-> ErrorResponse(plan.err), written |-> {}]
                 ELSE [response |->
                           HttpResponse(201, "Learning path generated successfully"),
                       written |->
                           {[student |-> user_id.v, path_data |-> plan.val]}]

\* everything a request holds in memory
Local(r) ==
    <<pc[r], request[r], questions[r], student_info[r], subject_scores[r],
      analysis[r], learning_path[r], llm_calls[r], llm_failed[r],
      llm_answers[r], response[r]>>

\* what a request has written, without the row ids
Written(r) ==
    {[student |-> db[i].student, path_data |-> db[i].path_data] : i \in RowsOf(r)}

\* the answers end the run: all three are there, or the repair of the
\* second one raises
RunsToEnd(answers, now) ==
    \/ Len(answers) = 3
    \/ Len(answers) = 2 /\ ~EnsureValidStructure(answers[2], now).ok

\* the LLM answers a request may have got by the step that ends it
LastAnswers(r) ==
    LET outcomes == CASE pc[r] = "AnalyzeRequested" -> AnalysisOutcomes
                      [] pc[r] = "PathRequested" -> PathOutcomes
                      [] pc[r] = "RoadmapRequested" -> RoadmapOutcomes
                      [] OTHER -> {}
    IN  IF pc[r] = "Idle" THEN {llm_answers[r]}
        ELSE {a \in {Append(llm_answers[r], CallLLMApi(o).val) : o \in outcomes} :
                  RunsToEnd(a, clock)}

\* a step of request r touches nothing another request holds or has written,
\* and the step that ends r gives it the response and the row that post
\* gives when it runs alone on r's request data and r's LLM answers
C22_IsolatedStep(r) ==
    pc'[r] # pc[r] =>
        /\ \A q \in Reqs \ {r} : Local(q)' = Local(q) /\ Written(q)' = Written(q)
        /\ pc'[r] \in {"Failed", "Merged"} =>
              \E rs \in {x \in ResponseLists :
                             ResponsesKind(x) = request'[r].responses} :
              \E answers \in LastAnswers(r), ord \in HashOrders :
                  LET alone == PostAlone(request'[r].user_id, rs, api_key,
                                         answers, ord, clock)
                  IN  /\ response'[r] = alone.response
                      /\ Written(r)' = alone.written

\* C22: for two requests running concurrently under any interleaving of
\* their stage steps, each request's outcome (the document it persists, or
\* its failure) is the outcome it has when run alone on the same inputs and
\* LLM answers; no in-memory state is shared, and a failing request leaves
\* the other unaffected
C22_RequestsIsolated == [][\A r \in Reqs : C22_IsolatedStep(r)]_vars

\* one request has failed in the merge while the other, started before that
\* failure, is Merged with its row
C22_Witness ==
    /\ pc["r1"] = "Failed" /\ llm_calls["r1"] = StageOrder
    /\ response["r1"].status = 500
    /\ pc["r2"] = "Merged" /\ Len(db) = 1 /\ db[1].req = "r2"
    /\ "skill_roadmap" \in DOMAIN db[1].path_data

----------------------------------------------------------------------------
(* The merged document *)

Tiers == {"foundational_skills", "intermediate_skills", "advanced_skills"}

\* the values of a list, {} for a key that is absent
Elems(d, k) ==
    IF k \in DOMAIN d /\ d[k].t = "list"
    THEN {d[k].v[i] : i \in 1..Len(d[k].v)} ELSE {}

NoDuplicates(d, k) ==
    (k \in DOMAIN d /\ d[k].t = "list") =>
        \A i, j \in 1..Len(d[k].v) : d[k].v[i] = d[k].v[j] => i = j

\* the skill_roadmap object of a document, the empty dict when it has none
SkillRoadmapOf(doc) ==
    IF "skill_roadmap" \in DOMAIN doc /\ doc["skill_roadmap"].t = "obj"
    THEN doc["skill_roadmap"].v ELSE EmptyMap

\* the focus areas of the phases of a roadmap that are mapped to the tier
FocusAreas(roadmap, tier) ==
    LET phases == ItemsOf(Get(roadmap, "mastery_progression", List(<<>>)))
    IN  UNION {Elems(phases[i].v, "focus_areas") :
                  i \in {j \in 1..Len(phases) :
                             /\ phases[j].t = "obj"
                             /\ "phase" \in DOMAIN phases[j].v
                             /\ TierKey(phases[j].v["phase"]) = tier}}

\* the rows a step adds to the table
Added == {db'[i] : i \in (Len(db) + 1)..Len(db')}

\* C23: after merge, each skill_roadmap tier list of the merged document
\* equals, as a set and without duplicate values, the union of the learning
\* path's list for that tier and the focus areas of all roadmap phases
\* mapped to that tier, also when the learning path had no skill_roadmap
C23_TierListsAreUnions ==
    [][\A row \in Added :
          LET doc == row.path_data
              mine == SkillRoadmapOf(learning_path[row.req])
              merged == SkillRoadmapOf(doc)
          IN  \A tier \in Tiers :
                  /\ Elems(merged, tier) =
                         Elems(mine, tier) \cup FocusAreas(doc["expert_roadmap"].v, tier)
                  /\ NoDuplicates(merged, tier)]_vars

\* the mentor_guidance entries of a document, none when it has no such list
GuidanceOf(doc) ==
    IF "mentor_guidance" \in DOMAIN doc /\ doc["mentor_guidance"].t = "list"
    THEN doc["mentor_guidance"].v ELSE <<>>

\* the expert_guidance entries of the roadmap stored in a document
ExpertGuidanceOf(doc) ==
    ItemsOf(Get(doc["expert_roadmap"].v, "expert_guidance", List(<<>>)))

\* the mentor_guidance shape of an expert_guidance entry
MentorShape(g) ==
    Obj([topic |-> g.v["topic"],
         advice |-> IF "expert_insights" \in DOMAIN g.v
                    THEN g.v["expert_insights"] ELSE Str(""),
         common_pitfalls |-> IF "common_misconceptions" \in DOMAIN g.v
                             THEN g.v["common_misconceptions"] ELSE List(<<>>),
         success_strategies |-> IF "advanced_techniques" \in DOMAIN g.v
                                THEN g.v["advanced_techniques"] ELSE List(<<>>)])

\* the number of entries of q equal to x
Count(q, x) == Cardinality({i \in 1..Len(q) : q[i] = x})

\* C24: after merge, the merged mentor_guidance contains every
\* mentor_guidance entry of the learning path and, for each roadmap
\* expert_guidance entry, one entry with topic copied, advice from
\* expert_insights, common_pitfalls from common_misconceptions and
\* success_strategies from advanced_techniques (a missing source field giving
\* the empty string or the empty list), and nothing else
C24_MentorGuidanceMerged ==
    [][\A row \in Added :
          LET merged == GuidanceOf(row.path_data)
              mine == GuidanceOf(learning_path[row.req])
              theirs == ExpertGuidanceOf(row.path_data)
              shaped == [i \in 1..Len(theirs) |-> MentorShape(theirs[i])]
          IN  \A x \in {merged[i] : i \in 1..Len(merged)}
                      \cup {mine[i] : i \in 1..Len(mine)}
                      \cup {shaped[i] : i \in 1..Len(shaped)} :
                  Count(merged, x) = Count(mine, x) + Count(shaped, x)]_vars

\* a stored document whose guidance holds the learning path's entry and the
\* shaped entry of the roadmap, its missing fields filled with empty values
C24_Witness ==
    \E i \in 1..Len(db) :
        LET g == GuidanceOf(db[i].path_data) IN
        /\ Len(g) = 3
        /\ g[1] = Obj([topic |-> Str("Habits")])
        /\ g[3] = Obj([topic |-> Str("Fractions"),
                       advice |-> Str("Use number lines"),
                       common_pitfalls |-> List(<<>>),
                       success_strategies |-> List(<<>>)])

\* C25: the merged mentor_guidance list is deduplicated as a set: no two
\* entries of a stored document's mentor_guidance are equal, also when an
\* expert_guidance entry becomes an entry the learning path already had
C25_MentorGuidanceDeduplicated ==
    \A i \in 1..Len(db) :
        LET g == GuidanceOf(db[i].path_data) IN
        \A j, k \in 1..Len(g) : g[j] = g[k] => j = k

\* the keys the merged document has before the analysis is looked at: those
\* of the learning path, expert_roadmap, student_info, and mentor_guidance
\* when the roadmap brought guidance
KeysBeforeAnalysis(path, doc) ==
    DOMAIN path \cup {"expert_roadmap", "student_info"}
        \cup (IF "expert_guidance" \in DOMAIN doc["expert_roadmap"].v
              THEN {"mentor_guidance"} ELSE {})

\* C26: in the final document the repaired roadmap is stored under
\* expert_roadmap, and every analysis key that is not already a key of the
\* merged document is copied into it with the analysis value, while a key
\* already present (from the learning path, expert_roadmap or student_info)
\* keeps its value and is never overwritten by the analysis
C26_AnalysisKeysAdded ==
    [][\A row \in Added :
          LET doc == row.path_data
              path == learning_path[row.req]
              analysed == analysis[row.req]
              present == KeysBeforeAnalysis(path, doc)
          IN  /\ \E o \in RoadmapOutcomes :
                    doc["expert_roadmap"] =
                        Obj(ValidateExpertRoadmap(CallLLMApi(o).val).val)
              /\ doc["student_info"] = student_info[row.req]
              /\ DOMAIN doc = present \cup DOMAIN analysed
              /\ \A k \in DOMAIN analysed \ present : doc[k] = analysed[k]
              /\ \A k \in DOMAIN path \ {"expert_roadmap", "student_info",
                                          "skill_roadmap", "mentor_guidance"} :
                    doc[k] = path[k]]_vars

\* a stored document that kept the learning path's recommended_topics, which
\* the analysis also had, and took knowledge_gaps from the analysis
C26_Witness ==
    \E i \in 1..Len(db) :
        LET doc == db[i].path_data IN
        /\ doc["recommended_topics"] = FullPathBody["recommended_topics"]
        /\ AnalysisBody["recommended_topics"] # FullPathBody["recommended_topics"]
        /\ "knowledge_gaps" \in DOMAIN doc
        /\ doc["knowledge_gaps"] = AnalysisBody["knowledge_gaps"]
        /\ "long_term_vision" \in DOMAIN doc["expert_roadmap"].v

----------------------------------------------------------------------------
(* Metrics and subjects *)

\* C27: the metrics analyzer is pure: every computation of the metrics on
\* one generator yields, for each subject, correct equal to the number of
\* correct responses of that subject and total equal to the number of its
\* responses, however many times the metrics were computed before
C27_MetricsPure ==
    gen_metrics # NoMetrics =>
        \A s \in DOMAIN gen_metrics :
            /\ gen_metrics[s].correct = NumCorrect(gen_questions, s)
            /\ gen_metrics[s].total = NumResponses(gen_questions, s)

\* the subject's position in the declared order
DeclaredOrder == <<"Math", "Reading", "Science", "Language">>

\* keyword occurs in txt at position at, letter case disregarded
OccursAt(keyword, txt, at) ==
    /\ at + Len(keyword) - 1 <= Len(txt)
    /\ \A c \in 1..Len(keyword) : LowerChar(txt[at + c - 1]) = LowerChar(keyword[c])

\* some keyword of the i-th subject occurs in txt
HasKeywordOf(i, txt) ==
    \E k \in 1..Len(SubjectKeywords[i].keywords), at \in 1..Len(txt) :
        OccursAt(SubjectKeywords[i].keywords[k], txt, at)

\* C28: the subject of a question is the first subject, in the declared
\* order Math, Reading, Science, Language, that has a keyword occurring as a
\* case-insensitive substring of the question text, and General when no
\* keyword occurs; a question matching two subjects gets the earlier one
C28_FirstMatchingSubject ==
    \A r \in Reqs : \A n \in 1..Len(questions[r]) :
        LET q == questions[r][n]
            hits == {i \in 1..Len(DeclaredOrder) : HasKeywordOf(i, q.question_text)}
        IN  /\ \A i \in 1..Len(DeclaredOrder) :
                  SubjectKeywords[i].subject = DeclaredOrder[i]
            /\ hits = {} => q.subject = "General"
            /\ hits # {} =>
                  \E i \in hits : /\ q.subject = DeclaredOrder[i]
                                   /\ \A j \in hits : i <= j

\* one request's questions hold a keyword in capitals, a text with keywords
\* of Reading and Science, and a text without any keyword; the other's hold
\* a capitalised Math keyword
C28_Witness ==
    /\ Len(questions["r1"]) = 3
    /\ questions["r1"][1] =
           [question_text |-> Q_Story, correct |-> FALSE, subject |-> "Reading"]
    /\ questions["r1"][2] =
           [question_text |-> Q_BiologyText, correct |-> TRUE, subject |-> "Reading"]
    /\ questions["r1"][3] =
           [question_text |-> Q_Planet, correct |-> FALSE, subject |-> "General"]
    /\ Len(questions["r2"]) = 1
    /\ questions["r2"][1].question_text = Q_Equation
    /\ questions["r2"][1].subject = "Math"

----------------------------------------------------------------------------
(* The merge and its input *)

LacksMergeKey(r, outcome) ==
    LET roadmap == ValidateExpertRoadmap(CallLLMApi(outcome).val).val
        phases == ItemsOf(Get(roadmap, "mastery_progression", List(<<>>)))
        guidances == ItemsOf(Get(roadmap, "expert_guidance", List(<<>>)))
    IN  \/ /\ "skill_roadmap" \in DOMAIN learning_path[r]
           /\ \E i \in 1..Len(phases) :
                 phases[i].t = "obj" /\ "phase" \notin DOMAIN phases[i].v
        \/ \E i \in 1..Len(guidances) :
              guidances[i].t = "obj" /\ "topic" \notin DOMAIN guidances[i].v

\* C30: schema repair does not make the merge total: when the repaired
\* roadmap contains a mastery_progression phase without a phase key (and the
\* learning path has a skill_roadmap), or an expert_guidance entry without a
\* topic key, the merge raises, the request ends with an internal-error
\* response after all three LLM calls were made, and no row is written
C30_MergeNotTotal ==
    [][\A r \in Reqs, o \in RoadmapOutcomes, ord \in HashOrders :
          (LacksMergeKey(r, o) /\ RoadmapReturns(r, o, ord)) =>
              /\ pc'[r] = "Failed"
              /\ response'[r] = HttpResponse(500, "Failed to generate learning path")
              /\ llm_calls'[r] = StageOrder
              /\ db' = db]_vars

\* a request whose three calls all returned a completion has ended with the
\* internal-error response and without a row
C30_Witness ==
    \E r \in Reqs :
        /\ pc[r] = "Failed"
        /\ llm_calls[r] = StageOrder
        /\ llm_failed[r] = {}
        /\ response[r].status = 500
        /\ RowsOf(r) = {}

====
